---------------------------- MODULE Spec2Model ----------------------------
(***************************************************************************)
(* A model of yamlpath: the Processor (processor.py), its helpers          *)
(* (func.py) and the EYAMLProcessor (eyaml/eyamlprocessor.py).             *)
(*                                                                         *)
(* A parsed YAML document is a heap of Python objects.  Object identity    *)
(* (`is`) is identity of heap ids, equality (`==`) is equality of values.  *)
(* Text is a sequence of one-character strings, so that parsing, escaping  *)
(* and prefix tests are computed and not assumed.                          *)
(***************************************************************************)
EXTENDS Integers, Sequences, FiniteSets, TLC

VARIABLES
    heap,       \* the objects of the bound document, by id (1..Len(heap))
    root,       \* Processor.data: id of the document's root object
    args,       \* the inputs of the calls under study
    pc,         \* which calls have been made
    res         \* what the last call returned / raised

vars == <<heap, root, args, pc, res>>

-----------------------------------------------------------------------------
(* Bounds of the model *)

MaxPathLen == 2      \* segments in a YAML Path drawn as input
MaxNeedleLen == 2    \* characters in a search needle drawn as input

-----------------------------------------------------------------------------
(* Text *)

Digits == <<"0", "1", "2", "3", "4", "5", "6", "7", "8", "9">>

IsDigit(c) == \E i \in 1..Len(Digits) : Digits[i] = c

DigitVal(c) == (CHOOSE i \in 1..Len(Digits) : Digits[i] = c) - 1

RECURSIVE DigitsVal(_)
DigitsVal(t) ==
    IF t = <<>> THEN 0
    ELSE DigitsVal(SubSeq(t, 1, Len(t) - 1)) * 10 + DigitVal(t[Len(t)])

AllDigits(t) == t # <<>> /\ \A i \in 1..Len(t) : IsDigit(t[i])

\* int(text) succeeds: an optional sign followed by one or more digits.
IsIntText(t) ==
    \/ AllDigits(t)
    \/ Len(t) > 1 /\ t[1] \in {"-", "+"} /\ AllDigits(Tail(t))

IntOf(t) ==
    IF t[1] = "-" THEN 0 - DigitsVal(Tail(t))
    ELSE IF t[1] = "+" THEN DigitsVal(Tail(t))
    ELSE DigitsVal(t)

RECURSIVE TextOfNat(_)
TextOfNat(n) ==
    IF n < 10 THEN <<Digits[n + 1]>>
    ELSE TextOfNat(n \div 10) \o <<Digits[(n % 10) + 1]>>

\* str(n) for an integer n
TextOfInt(n) == IF n < 0 THEN <<"-">> \o TextOfNat(0 - n) ELSE TextOfNat(n)

StartsWith(t, p) == Len(t) >= Len(p) /\ SubSeq(t, 1, Len(p)) = p

RECURSIVE Without(_, _)
\* text.replace(c, "") for every character c of the set cs
Without(t, cs) ==
    IF t = <<>> THEN <<>>
    ELSE IF t[1] \in cs THEN Without(Tail(t), cs)
    ELSE <<t[1]>> \o Without(Tail(t), cs)

-----------------------------------------------------------------------------
(* Python values.  None is id 0; every other object is a record of the     *)
(* heap.  k is the type: "map" (CommentedMap), "seq" (CommentedSeq or      *)
(* list), "str", "int", "float" (n holds the value times 1000), "coord"     *)
(* (a NodeCoords: cn, cp, cr are its node, parent and parentref).  attr is *)
(* hasattr(obj, "anchor"): true of the ruamel.yaml wrapper types, false of *)
(* plain str, int, float and list.  anchor is anchor.value (<<>>: None).   *)
(* ent holds a sequence's elements as <<0, id>> and a mapping's declared   *)
(* entries as <<key id, value id>>; merge the mappings merged in by <<.    *)
(* prec and width are the _prec and _width of a ScalarFloat.  "bool" is a  *)
(* ScalarBoolean (n is 0 or 1).                                            *)

\* A parentref: None, a str or an int.
NoRef == [kt |-> "none", s |-> <<>>, n |-> 0]
StrRef(t) == [kt |-> "str", s |-> t, n |-> 0]
IntRef(i) == [kt |-> "int", s |-> <<>>, n |-> i]

Blank ==
    [k |-> "str", s |-> <<>>, n |-> 0, anchor |-> <<>>, attr |-> FALSE,
     ent |-> <<>>, merge |-> <<>>, cn |-> 0, cp |-> 0, cr |-> NoRef,
     prec |-> 0, width |-> 0]

PyStr(t) == [Blank EXCEPT !.k = "str", !.s = t]
PyInt(i) == [Blank EXCEPT !.k = "int", !.n = i]
PyFloat(f) == [Blank EXCEPT !.k = "float", !.n = f]
PyList(e) == [Blank EXCEPT !.k = "seq", !.ent = e]
YStr(t, a) == [Blank EXCEPT !.k = "str", !.s = t, !.anchor = a, !.attr = TRUE]
YInt(i, a) == [Blank EXCEPT !.k = "int", !.n = i, !.anchor = a, !.attr = TRUE]
YFloat(f, a) == [Blank EXCEPT !.k = "float", !.n = f, !.anchor = a, !.attr = TRUE]
YSeq(e, a) == [Blank EXCEPT !.k = "seq", !.ent = e, !.anchor = a, !.attr = TRUE]
YMap(e, a, m) ==
    [Blank EXCEPT !.k = "map", !.ent = e, !.anchor = a, !.merge = m, !.attr = TRUE]
Coord(node, parent, ref) ==
    [Blank EXCEPT !.k = "coord", !.cn = node, !.cp = parent, !.cr = ref]

Kind(h, i) == IF i = 0 THEN "none" ELSE h[i].k
IsDict(h, i) == Kind(h, i) = "map"
IsList(h, i) == Kind(h, i) = "seq"
IsStr(h, i) == Kind(h, i) = "str"
HasAnchorAttr(h, i) == i # 0 /\ h[i].attr

\* len(data), and data[idx] of a list: idx counts from 0, a negative idx
\* from the end
ListLen(h, d) == Len(h[d].ent)
PyIndex(h, d, idx) == IF idx < 0 THEN idx + ListLen(h, d) ELSE idx
InRange(h, d, idx) == PyIndex(h, d, idx) >= 0 /\ PyIndex(h, d, idx) < ListLen(h, d)
ListGet(h, d, idx) == h[d].ent[PyIndex(h, d, idx) + 1][2]

\* The value of a mapping key as a parentref
KeyRef(h, kid) ==
    IF Kind(h, kid) = "str" THEN StrRef(h[kid].s)
    ELSE IF Kind(h, kid) = "int" THEN IntRef(h[kid].n)
    ELSE NoRef

\* Position of the declared entry of mapping d whose key equals ref, or 0
OwnPos(h, d, ref) ==
    IF \E i \in 1..Len(h[d].ent) : KeyRef(h, h[d].ent[i][1]) = ref
    THEN CHOOSE i \in 1..Len(h[d].ent) : KeyRef(h, h[d].ent[i][1]) = ref
    ELSE 0

RECURSIVE MapHas(_, _, _)
\* ref in data, for a CommentedMap: a declared key or one merged in
MapHas(h, d, ref) ==
    \/ OwnPos(h, d, ref) # 0
    \/ \E j \in 1..Len(h[d].merge) : MapHas(h, h[d].merge[j], ref)

RECURSIVE MapGet(_, _, _)
\* data[ref], for a CommentedMap that has ref
MapGet(h, d, ref) ==
    IF OwnPos(h, d, ref) # 0 THEN h[d].ent[OwnPos(h, d, ref)][2]
    ELSE LET j == CHOOSE j \in 1..Len(h[d].merge) :
                      /\ MapHas(h, h[d].merge[j], ref)
                      /\ \A i \in 1..(j - 1) : ~MapHas(h, h[d].merge[i], ref)
         IN  MapGet(h, h[d].merge[j], ref)

\* parent[parentref], when it exists
ItemAt(h, parent, ref) ==
    IF IsDict(h, parent) THEN MapGet(h, parent, ref)
    ELSE ListGet(h, parent, ref.n)

HasItem(h, parent, ref) ==
    IF IsDict(h, parent) THEN MapHas(h, parent, ref)
    ELSE IsList(h, parent) /\ ref.kt = "int" /\ InRange(h, parent, ref.n)

RECURSIVE DeepEq(_, _, _)
\* a == b in Python, for two objects of one heap
DeepEq(h, a, b) ==
    IF a = b THEN TRUE
    ELSE IF a = 0 \/ b = 0 THEN FALSE
    ELSE IF h[a].k = "str" /\ h[b].k = "str" THEN h[a].s = h[b].s
    ELSE IF h[a].k = "int" /\ h[b].k = "int" THEN h[a].n = h[b].n
    ELSE IF h[a].k = "float" /\ h[b].k = "float" THEN h[a].n = h[b].n
    ELSE IF h[a].k = "int" /\ h[b].k = "float" THEN h[a].n * 1000 = h[b].n
    ELSE IF h[a].k = "float" /\ h[b].k = "int" THEN h[a].n = h[b].n * 1000
    ELSE IF h[a].k = "seq" /\ h[b].k = "seq" THEN
        /\ Len(h[a].ent) = Len(h[b].ent)
        /\ \A i \in 1..Len(h[a].ent) : DeepEq(h, h[a].ent[i][2], h[b].ent[i][2])
    ELSE IF h[a].k = "map" /\ h[b].k = "map" THEN
        /\ Len(h[a].ent) = Len(h[b].ent)
        /\ \A i \in 1..Len(h[a].ent) :
              LET r == KeyRef(h, h[a].ent[i][1])
              IN  /\ OwnPos(h, b, r) # 0
                  /\ DeepEq(h, h[a].ent[i][2], h[b].ent[OwnPos(h, b, r)][2])
    ELSE FALSE

RECURSIVE Strip(_)
\* text.strip() of spaces and newlines
Strip(t) ==
    IF t # <<>> /\ t[1] \in {" ", "\n"} THEN Strip(Tail(t))
    ELSE IF t # <<>> /\ t[Len(t)] \in {" ", "\n"} THEN Strip(SubSeq(t, 1, Len(t) - 1))
    ELSE t

\* int(needle) does not raise ValueError
IntParses(t) == IsIntText(Strip(t))
IntParsed(t) == IntOf(Strip(t))

Unsigned(t) == IF t # <<>> /\ t[1] \in {"-", "+"} THEN Tail(t) ELSE t
DotsIn(t) == {i \in 1..Len(t) : t[i] = "."}

\* float(needle) does not raise ValueError: a signed run of digits with at
\* most one decimal point and at least one digit
FloatParses(t) ==
    LET u == Unsigned(Strip(t))
    IN  /\ Cardinality(DotsIn(u)) <= 1
        /\ Without(u, {"."}) # <<>>
        /\ \A i \in 1..Len(u) : IsDigit(u[i]) \/ u[i] = "."

RECURSIVE Pow10(_)
Pow10(e) == IF e <= 0 THEN 1 ELSE 10 * Pow10(e - 1)

\* float(needle) times 1000 (exact for up to three decimals)
FloatParsed(t) ==
    LET st == Strip(t)
        u == Unsigned(st)
        dot == IF DotsIn(u) = {} THEN Len(u) + 1 ELSE CHOOSE i \in DotsIn(u) : TRUE
        whole == DigitsVal(SubSeq(u, 1, dot - 1))
        frac == SubSeq(u, dot + 1, Len(u))
        f3 == SubSeq(frac \o <<"0", "0", "0">>, 1, 3)
        mag == whole * 1000 + DigitsVal(f3)
    IN  IF st[1] = "-" THEN 0 - mag ELSE mag

-----------------------------------------------------------------------------
(* func.py: wrap_type, build_next_node, append_list_element, make_new_node *)

\* A value handed to set_value or get_nodes(default_value=): None (NoRef),
\* a str (StrRef) or an int (IntRef).

\* ast.literal_eval(text) gives an int: a decimal literal, possibly signed
IsIntLiteral(t) ==
    LET d == IF t # <<>> /\ t[1] \in {"-", "+"} THEN Tail(t) ELSE t
    IN  /\ AllDigits(d)
        /\ (Len(d) = 1 \/ d[1] # "0" \/ \A i \in 1..Len(d) : d[i] = "0")

\* wrap_type(value): the ruamel.yaml wrapper of the literal's type.  The
\* wrapper is built from the value itself, so ScalarInt("5") is 5.
wrap_type(value) ==
    IF value.kt = "int" THEN YInt(value.n, <<>>)
    ELSE IF value.kt = "str" /\ IsIntLiteral(value.s)
         THEN YInt(IntOf(value.s), <<>>)
    ELSE YStr(value.s, <<>>)

\* build_next_node(yaml_path, depth, value): the object to create, or
\* Blank with k = "none" for None.  depth counts from 1 here.
NoneObj == [Blank EXCEPT !.k = "none"]

build_next_node(path, depth, value) ==
    IF ~(depth <= Len(path)) THEN
        IF value.kt = "none" THEN NoneObj ELSE wrap_type(value)
    ELSE IF path[depth].t = "INDEX" THEN YSeq(<<>>, <<>>)
    ELSE IF path[depth].t = "KEY" THEN YMap(<<>>, <<>>, <<>>)
    ELSE IF value.kt = "none" THEN NoneObj ELSE wrap_type(value)

\* Allocation: the heap with obj added and the id it got (0 for None)
Alloc(h, obj) ==
    IF obj.k = "none" THEN [h |-> h, id |-> 0]
    ELSE [h |-> Append(h, obj), id |-> Len(h) + 1]

\* append_list_element(data, value, anchor): data.append(value); with an
\* anchor name the (wrapped) value is given that anchor first.
append_list_element(h, data, obj, anchor) ==
    LET o == IF anchor # <<>> /\ obj.k # "none"
             THEN [obj EXCEPT !.anchor = anchor] ELSE obj
        a == Alloc(h, o)
    IN  [h |-> [a.h EXCEPT ![data].ent = Append(@, <<0, a.id>>)], id |-> a.id]

make_new_node_NoAnchor(h, source_node, value, value_format) ==
    wrap_type(value)

\* str(value) of a value handed to set_value
TextOfValue(value) ==
    IF value.kt = "int" THEN TextOfInt(value.n)
    ELSE IF value.kt = "str" THEN value.s
    ELSE <<"N", "o", "n", "e">>

\* The formats of make_new_node that give a scalar string of str(value)
StringFormats == {"BARE", "DQUOTE", "SQUOTE", "FOLDED", "LITERAL"}

\* The call raises e: no node is returned
Raised(e) == [Blank EXCEPT !.k = e]

IsRaised(obj) == obj.k \in {"ValueError", "AttributeError"}

\* strtobool(value)
strtobool(value) ==
    IF value.kt # "str" THEN Raised("AttributeError")
    ELSE IF value.s \in {<<"y">>, <<"y", "e", "s">>, <<"t">>, <<"t", "r", "u", "e">>,
                         <<"o", "n">>, <<"1">>}
    THEN [Blank EXCEPT !.k = "bool", !.n = 1, !.attr = TRUE]
    ELSE IF value.s \in {<<"n">>, <<"n", "o">>, <<"f">>, <<"f", "a", "l", "s", "e">>,
                         <<"o", "f", "f">>, <<"0">>}
    THEN [Blank EXCEPT !.k = "bool", !.n = 0, !.attr = TRUE]
    ELSE Raised("ValueError")

\* strval.rfind("."): the position of the last point counted from 0, -1
\* when there is none
rfind(strval) ==
    IF DotsIn(strval) = {} THEN -1
    ELSE (CHOOSE i \in DotsIn(strval) : \A j \in DotsIn(strval) : j <= i) - 1

\* precision of make_new_node for FLOAT
precision(strval) == IF -1 < rfind(strval) THEN rfind(strval) ELSE 0

\* ScalarFloat(new_value, prec=precision, width=width)
ScalarFloat(new_value, prec, width) ==
    [Blank EXCEPT !.k = "float", !.n = new_value, !.attr = TRUE,
                  !.prec = prec, !.width = width]

\* new_type(new_value) of make_new_node, without encoding: a scalar string
\* for the string formats, a ScalarBoolean, ScalarFloat or ScalarInt for
\* BOOLEAN, FLOAT and INT, the type wrap_type infers for DEFAULT
NewTyped(value, value_format) ==
    IF value_format \in StringFormats THEN YStr(TextOfValue(value), <<>>)
    ELSE IF value_format = "BOOLEAN" THEN strtobool(value)
    ELSE IF value_format = "FLOAT"
    THEN IF value.kt = "none" \/ ~FloatParses(TextOfValue(value))
         THEN Raised("ValueError")
         ELSE ScalarFloat(FloatParsed(TextOfValue(value)),
                          precision(TextOfValue(value)), Len(TextOfValue(value)))
    ELSE IF value_format = "INT"
    THEN IF value.kt = "none" \/ ~IntParses(TextOfValue(value))
         THEN Raised("ValueError")
         ELSE YInt(IntParsed(TextOfValue(value)), <<>>)
    ELSE wrap_type(value)

\* make_new_node(source_node, value, value_format, encoding): the new node
\* carries the source node's anchor.
make_new_node(h, source_node, value, value_format) ==
    IF IsRaised(NewTyped(value, value_format)) THEN NewTyped(value, value_format)
    ELSE IF HasAnchorAttr(h, source_node)
    THEN [NewTyped(value, value_format) EXCEPT !.anchor = h[source_node].anchor]
    ELSE NewTyped(value, value_format)

-----------------------------------------------------------------------------
(* processor.py: Processor._update_node *)

RECURSIVE recurse(_, _, _, _, _, _)
RECURSIVE recurseDict(_, _, _, _, _, _, _)
RECURSIVE recurseList(_, _, _, _, _, _, _)

\* The keys of data that are the reference node become the replacement
\* (data.insert(i, replacement_node, data.pop(k))).
ReplaceKeys(h, data, reference_node, replacement_node) ==
    [h EXCEPT ![data].ent =
        [i \in DOMAIN @ |->
            IF @[i][1] = reference_node THEN <<replacement_node, @[i][2]>>
            ELSE @[i]]]

recurse(h, data, parent, parentref, reference_node, replacement_node) ==
    IF IsDict(h, data) THEN
        recurseDict(ReplaceKeys(h, data, reference_node, replacement_node),
                    data, 1, parent, parentref, reference_node, replacement_node)
    ELSE IF IsList(h, data) THEN
        recurseList(h, data, 1, parent, parentref, reference_node,
                    replacement_node)
    ELSE h

\* for k, val in data.non_merged_items(), from the i-th declared entry on
recurseDict(h, data, i, parent, parentref, reference_node, replacement_node) ==
    IF i > Len(h[data].ent) THEN h
    ELSE LET k == h[data].ent[i][1]
             val == h[data].ent[i][2]
         IN  IF val = reference_node THEN
                 IF \/ HasAnchorAttr(h, val)
                    \/ (data = parent /\ KeyRef(h, k) = parentref)
                 THEN recurseDict([h EXCEPT ![data].ent[i][2] = replacement_node],
                                  data, i + 1, parent, parentref,
                                  reference_node, replacement_node)
                 ELSE recurseDict(h, data, i + 1, parent, parentref,
                                  reference_node, replacement_node)
             ELSE recurseDict(recurse(h, val, parent, parentref, reference_node,
                                      replacement_node),
                              data, i + 1, parent, parentref,
                              reference_node, replacement_node)

recurseList_DirectOnly(h, data, i, parent, parentref, reference_node, replacement_node) ==
    IF i > Len(h[data].ent) THEN h
    ELSE IF h[data].ent[i][2] = reference_node
         THEN recurseList(IF data = parent /\ IntRef(i - 1) = parentref
                          THEN [h EXCEPT ![data].ent[i][2] = replacement_node]
                          ELSE h,
                          data, i + 1, parent, parentref,
                          reference_node, replacement_node)
         ELSE recurseList(recurse(h, h[data].ent[i][2], parent, parentref,
                                  reference_node, replacement_node),
                          data, i + 1, parent, parentref,
                          reference_node, replacement_node)

\* The elements equal to the reference node are replaced as well
recurseList_ByValue(h, data, i, parent, parentref, reference_node, replacement_node) ==
    IF i > Len(h[data].ent) THEN h
    ELSE IF DeepEq(h, h[data].ent[i][2], reference_node)
         THEN recurseList([h EXCEPT ![data].ent[i][2] = replacement_node],
                          data, i + 1, parent, parentref,
                          reference_node, replacement_node)
         ELSE recurseList(recurse(h, h[data].ent[i][2], parent, parentref,
                                  reference_node, replacement_node),
                          data, i + 1, parent, parentref,
                          reference_node, replacement_node)

\* for idx, item in enumerate(data), from the i-th element on
recurseList(h, data, i, parent, parentref, reference_node, replacement_node) ==
    IF i > Len(h[data].ent) THEN h
    ELSE IF h[data].ent[i][2] = reference_node
         THEN recurseList([h EXCEPT ![data].ent[i][2] = replacement_node],
                          data, i + 1, parent, parentref,
                          reference_node, replacement_node)
         ELSE recurseList(recurse(h, h[data].ent[i][2], parent, parentref,
                                  reference_node, replacement_node),
                          data, i + 1, parent, parentref,
                          reference_node, replacement_node)

\* _update_node(parent, parentref, value, value_format, encoding) on the
\* document rooted at data: the heap afterwards, or the error raised by
\* parent[parentref].
update_node(h, data, parent, parentref, value, value_format) ==
    IF parent = 0 THEN [h |-> h, err |-> "TypeError"]
    ELSE IF ~HasItem(h, parent, parentref) THEN
        [h |-> h, err |-> IF IsDict(h, parent) THEN "KeyError" ELSE "IndexError"]
    ELSE LET change_node == ItemAt(h, parent, parentref)
             a == Alloc(h, make_new_node(h, change_node, value, value_format))
         IN  [h |-> recurse(a.h, data, parent, parentref, change_node, a.id),
              err |-> "none"]

-----------------------------------------------------------------------------
(* func.py: search_matches *)

\* The characters of the model in code-point order
Alphabet ==
    <<"\n", " ", "\"", "$", "%", "&", "'", "(", ")", "+", "-", ".", "/",
      "0", "1", "2", "3", "4", "5", "6", "7", "8", "9", ":", "<", "=", ">",
      "A", "B", "C", "E", "N", "P", "[", "\\", "]", "^",
      "a", "b", "c", "d", "e", "k", "l", "m", "n", "p", "s", "v", "x", "y", "z">>

Code(c) == CHOOSE i \in 1..Len(Alphabet) : Alphabet[i] = c

RECURSIVE TextLess(_, _)
\* a < b for two str
TextLess(a, b) ==
    IF b = <<>> THEN FALSE
    ELSE IF a = <<>> THEN TRUE
    ELSE IF a[1] = b[1] THEN TextLess(Tail(a), Tail(b))
    ELSE Code(a[1]) < Code(b[1])

RECURSIVE TrimZeros(_)
TrimZeros(t) ==
    IF Len(t) > 1 /\ t[Len(t)] = "0" THEN TrimZeros(SubSeq(t, 1, Len(t) - 1)) ELSE t

\* str(f) of a float held times 1000
TextOfFloat(f) ==
    LET mag == IF f < 0 THEN 0 - f ELSE f
        fr == mag % 1000
        f3 == <<Digits[(fr \div 100) + 1], Digits[((fr \div 10) % 10) + 1],
                Digits[(fr % 10) + 1]>>
    IN  (IF f < 0 THEN <<"-">> ELSE <<>>)
        \o TextOfNat(mag \div 1000) \o <<".">> \o TrimZeros(f3)

\* str(haystack); the text of a container is not modelled beyond a marker
StrOf(h, i) ==
    IF i = 0 THEN <<"N", "o", "n", "e">>
    ELSE IF h[i].k = "str" THEN h[i].s
    ELSE IF h[i].k = "int" THEN TextOfInt(h[i].n)
    ELSE IF h[i].k = "float" THEN TextOfFloat(h[i].n)
    ELSE <<"[", "]">>

EndsWith(t, p) ==
    Len(t) >= Len(p) /\ SubSeq(t, Len(t) - Len(p) + 1, Len(t)) = p

Contains(t, p) ==
    \E i \in 0..(Len(t) - Len(p)) : SubSeq(t, i + 1, i + Len(p)) = p

\* re.compile(needle).search(text) for a needle of literal characters and
\* the wildcard "."
RegexSearch(t, p) ==
    \E i \in 0..(Len(t) - Len(p)) :
        \A j \in 1..Len(p) : p[j] = "." \/ t[i + j] = p[j]

Relational == {"EQUALS", "GREATER_THAN", "LESS_THAN",
               "GREATER_THAN_OR_EQUAL", "LESS_THAN_OR_EQUAL"}

\* haystack <method> x for two numbers
NumCompare(method, a, b) ==
    CASE method = "EQUALS" -> a = b
      [] method = "GREATER_THAN" -> a > b
      [] method = "LESS_THAN" -> a < b
      [] method = "GREATER_THAN_OR_EQUAL" -> a >= b
      [] method = "LESS_THAN_OR_EQUAL" -> a <= b

\* haystack <method> needle for two str
TextCompare(method, a, b) ==
    CASE method = "EQUALS" -> a = b
      [] method = "GREATER_THAN" -> TextLess(b, a)
      [] method = "LESS_THAN" -> TextLess(a, b)
      [] method = "GREATER_THAN_OR_EQUAL" -> ~TextLess(a, b)
      [] method = "LESS_THAN_OR_EQUAL" -> ~TextLess(b, a)

Match(b) == [matches |-> b, err |-> "none"]
Raise(e) == [matches |-> FALSE, err |-> e]

RelationalMatch_NoTry(method, needle, h, haystack) ==
    IF Kind(h, haystack) = "int" THEN
        IF IntParses(needle)
        THEN Match(NumCompare(method, h[haystack].n, IntParsed(needle)))
        ELSE Raise("ValueError")
    ELSE IF Kind(h, haystack) = "float" THEN
        IF FloatParses(needle)
        THEN Match(NumCompare(method, h[haystack].n, FloatParsed(needle)))
        ELSE Raise("ValueError")
    ELSE IF Kind(h, haystack) = "str"
    THEN Match(TextCompare(method, h[haystack].s, needle))
    ELSE IF method = "EQUALS" THEN Match(FALSE)
    ELSE Raise("TypeError")

\* The branches of search_matches for = > < >= <=: a numeric haystack is
\* compared with the needle parsed as its kind, a parse failure is no match.
RelationalMatch(method, needle, h, haystack) ==
    IF Kind(h, haystack) = "int" THEN
        IF IntParses(needle)
        THEN Match(NumCompare(method, h[haystack].n, IntParsed(needle)))
        ELSE Match(FALSE)
    ELSE IF Kind(h, haystack) = "float" THEN
        IF FloatParses(needle)
        THEN Match(NumCompare(method, h[haystack].n, FloatParsed(needle)))
        ELSE Match(FALSE)
    ELSE IF Kind(h, haystack) = "str"
    THEN Match(TextCompare(method, h[haystack].s, needle))
    ELSE IF method = "EQUALS" THEN Match(FALSE)
    ELSE Raise("TypeError")

\* search_matches(method, needle, haystack): the result, or the error raised
search_matches(method, needle, h, haystack) ==
    IF method \in Relational THEN RelationalMatch(method, needle, h, haystack)
    ELSE IF method = "STARTS_WITH" THEN Match(StartsWith(StrOf(h, haystack), needle))
    ELSE IF method = "ENDS_WITH" THEN Match(EndsWith(StrOf(h, haystack), needle))
    ELSE IF method = "CONTAINS" THEN Match(Contains(StrOf(h, haystack), needle))
    ELSE IF method = "REGEX" THEN Match(RegexSearch(StrOf(h, haystack), needle))
    ELSE Raise("NotImplementedError")

-----------------------------------------------------------------------------
(* YAML Paths: a sequence of segments (type, attributes).  a is the text   *)
(* of a KEY, INDEX ("1" or "0:2") or ANCHOR segment; inv, method, attr and *)
(* term are the SearchTerms of a SEARCH segment; op and expr are the       *)
(* CollectorTerms of a COLLECTOR segment, expr being the parsed nested     *)
(* path.                                                                   *)

Seg0 ==
    [t |-> "KEY", a |-> <<>>, inv |-> FALSE, method |-> "EQUALS",
     attr |-> <<>>, term |-> <<>>, op |-> "NONE", expr |-> <<>>]

KeySeg(a) == [Seg0 EXCEPT !.t = "KEY", !.a = a]
IndexSeg(a) == [Seg0 EXCEPT !.t = "INDEX", !.a = a]
AnchorSeg(a) == [Seg0 EXCEPT !.t = "ANCHOR", !.a = a]
SearchSeg(inv, method, attr, term) ==
    [Seg0 EXCEPT !.t = "SEARCH", !.inv = inv, !.method = method,
                 !.attr = attr, !.term = term]
CollectorSeg(op, expr) == [Seg0 EXCEPT !.t = "COLLECTOR", !.op = op, !.expr = expr]

-----------------------------------------------------------------------------
(* processor.py: resolution.  The generators are lazy: the consumer's loop *)
(* body runs at every yield, before the generator goes on.  A walk         *)
(* therefore threads the heap: c.mode is "req" (_get_required_nodes) or    *)
(* "opt" (_get_optional_nodes), and with c.upd the consumer is set_value,  *)
(* which calls _update_node on each NodeCoords as it is yielded.  A walk   *)
(* returns the heap, the NodeCoords yielded (out), how many coordinates    *)
(* the segment matched (m) and the error raised, if any.                   *)

Ok(h) == [h |-> h, out |-> <<>>, m |-> 0, err |-> "none"]
Err(h, e) == [h |-> h, out |-> <<>>, m |-> 0, err |-> e]
One(r) == [r EXCEPT !.m = 1]
Join(acc, r) ==
    [h |-> r.h, out |-> acc.out \o r.out, m |-> acc.m + r.m, err |-> r.err]

NodeCoords(node, parent, parentref) ==
    [node |-> node, parent |-> parent, ref |-> parentref]

\* The consumer's loop body at a yield
Yield(c, h, data, parent, parentref) ==
    IF c.upd
    THEN LET u == update_node(h, c.root, parent, parentref, c.value, c.fmt)
         IN  [h |-> u.h, out |-> <<NodeCoords(data, parent, parentref)>>,
              m |-> 0, err |-> u.err]
    ELSE [h |-> h, out |-> <<NodeCoords(data, parent, parentref)>>,
          m |-> 0, err |-> "none"]

RECURSIVE EffEntries(_, _)
\* data.items() of a CommentedMap: the declared entries, then the entries
\* merged in whose key is not yet present
EffEntries(h, d) ==
    LET add(acc, m) ==
            acc \o SelectSeq(EffEntries(h, m),
                             LAMBDA e : \A i \in 1..Len(acc) :
                                 KeyRef(h, acc[i][1]) # KeyRef(h, e[1]))
        F[j \in 0..Len(h[d].merge)] ==
            IF j = 0 THEN h[d].ent ELSE add(F[j - 1], h[d].merge[j])
    IN  F[Len(h[d].merge)]

NameOf(h, i) == IF HasAnchorAttr(h, i) THEN h[i].anchor ELSE <<>>

\* Position of the first ":" of a text, or 0
ColonPos(t) ==
    IF \E i \in 1..Len(t) : t[i] = ":"
    THEN CHOOSE i \in 1..Len(t) : t[i] = ":" /\ \A j \in 1..(i - 1) : t[j] # ":"
    ELSE 0

Min(a, b) == IF a < b THEN a ELSE b
Max(a, b) == IF a > b THEN a ELSE b

\* The elements of data[lo:hi]
SliceOf(h, d, lo, hi) ==
    LET n == ListLen(h, d)
        a == IF lo < 0 THEN Max(0, lo + n) ELSE Min(lo, n)
        b == IF hi < 0 THEN Max(0, hi + n) ELSE Min(hi, n)
    IN  IF a < b THEN SubSeq(h[d].ent, a + 1, b) ELSE <<>>

RECURSIVE Walk(_, _, _, _, _, _)
RECURSIVE SegWalk(_, _, _, _, _, _)
RECURSIVE PassKey(_, _, _, _, _, _)
RECURSIVE AnchorList(_, _, _, _, _, _)
RECURSIVE AnchorDict(_, _, _, _, _, _)
RECURSIVE SliceDict(_, _, _, _, _, _, _, _)
RECURSIVE SearchList(_, _, _, _, _, _, _)
RECURSIVE SearchKeys(_, _, _, _, _, _)
RECURSIVE get_nodes_by_collector(_, _, _, _, _, _)
RECURSIVE Create(_, _, _, _)
RECURSIVE Extend(_, _, _, _, _)

\* _get_nodes_by_key, each coordinate passed on to the next segment
get_nodes_by_key(c, h, data, depth) ==
    LET a == c.path[depth].a
    IN  IF IsDict(h, data) THEN
            IF MapHas(h, data, StrRef(a))
            THEN One(Walk(c, h, MapGet(h, data, StrRef(a)), depth + 1, data, StrRef(a)))
            ELSE IF IntParses(a) /\ MapHas(h, data, IntRef(IntParsed(a)))
            THEN One(Walk(c, h, MapGet(h, data, IntRef(IntParsed(a))), depth + 1,
                          data, IntRef(IntParsed(a))))
            ELSE Ok(h)
        ELSE IF IsList(h, data) THEN
            IF IntParses(a) THEN
                IF ListLen(h, data) > IntParsed(a) THEN
                    IF InRange(h, data, IntParsed(a))
                    THEN One(Walk(c, h, ListGet(h, data, IntParsed(a)), depth + 1,
                                  data, IntRef(IntParsed(a))))
                    ELSE Err(h, "IndexError")
                ELSE Ok(h)
            ELSE PassKey(c, h, data, depth, 0, Ok(h))
        ELSE Ok(h)

\* The pass-through of a KEY over the elements of a list, from element i on
PassKey(c, h, data, depth, i, acc) ==
    IF acc.err # "none" \/ i >= ListLen(acc.h, data) THEN acc
    ELSE PassKey(c, h, data, depth, i + 1,
                 Join(acc, SegWalk(c, acc.h, ListGet(acc.h, data, i), depth,
                                   data, IntRef(i))))

\* Every slice is data[intmin:intmax]
get_nodes_by_index_SliceOnly(c, h, data, depth) ==
    LET a == c.path[depth].a
        cp == ColonPos(a)
        min_match == SubSeq(a, 1, cp - 1)
        max_match == SubSeq(a, cp + 1, Len(a))
    IN  IF cp # 0 THEN
            IF IsList(h, data) THEN
                IF ~(IntParses(min_match) /\ IntParses(max_match))
                THEN Err(h, "InvalidPath")
                ELSE LET intmin == IntParsed(min_match)
                         intmax == IntParsed(max_match)
                     IN  LET n == Alloc(h, YSeq(SliceOf(h, data, intmin, intmax), <<>>))
                              IN  One(Walk(c, n.h, n.id, depth + 1, data, IntRef(intmin)))
            ELSE IF IsDict(h, data)
            THEN SliceDict(c, h, data, depth, min_match, max_match, 1, Ok(h))
            ELSE Ok(h)
        ELSE IF ~IntParses(a) THEN Err(h, "InvalidPath")
        ELSE IF IsList(h, data) /\ ListLen(h, data) > IntParsed(a) THEN
            IF InRange(h, data, IntParsed(a))
            THEN One(Walk(c, h, ListGet(h, data, IntParsed(a)), depth + 1,
                          data, IntRef(IntParsed(a))))
            ELSE Err(h, "IndexError")
        ELSE Ok(h)

\* _get_nodes_by_index, each coordinate passed on to the next segment
get_nodes_by_index(c, h, data, depth) ==
    LET a == c.path[depth].a
        cp == ColonPos(a)
        min_match == SubSeq(a, 1, cp - 1)
        max_match == SubSeq(a, cp + 1, Len(a))
    IN  IF cp # 0 THEN
            IF IsList(h, data) THEN
                IF ~(IntParses(min_match) /\ IntParses(max_match))
                THEN Err(h, "InvalidPath")
                ELSE LET intmin == IntParsed(min_match)
                         intmax == IntParsed(max_match)
                     IN  IF intmin = intmax /\ ListLen(h, data) > intmin THEN
                             IF InRange(h, data, intmin)
                             THEN LET n == Alloc(h, PyList(<<<<0, ListGet(h, data, intmin)>>>>))
                                  IN  One(Walk(c, n.h, n.id, depth + 1, data, IntRef(intmin)))
                             ELSE Err(h, "IndexError")
                         ELSE LET n == Alloc(h, YSeq(SliceOf(h, data, intmin, intmax), <<>>))
                              IN  One(Walk(c, n.h, n.id, depth + 1, data, IntRef(intmin)))
            ELSE IF IsDict(h, data)
            THEN SliceDict(c, h, data, depth, min_match, max_match, 1, Ok(h))
            ELSE Ok(h)
        ELSE IF ~IntParses(a) THEN Err(h, "InvalidPath")
        ELSE IF IsList(h, data) /\ ListLen(h, data) > IntParsed(a) THEN
            IF InRange(h, data, IntParsed(a))
            THEN One(Walk(c, h, ListGet(h, data, IntParsed(a)), depth + 1,
                          data, IntRef(IntParsed(a))))
            ELSE Err(h, "IndexError")
        ELSE Ok(h)

\* A slice of a mapping: every entry whose key lies in [min, max], from the
\* i-th entry of data.items() on
SliceDict(c, h, data, depth, min_match, max_match, i, acc) ==
    IF acc.err # "none" \/ i > Len(EffEntries(acc.h, data)) THEN acc
    ELSE LET e == EffEntries(acc.h, data)[i]
             key == KeyRef(acc.h, e[1])
         IN  IF key.kt # "str" THEN Join(acc, Err(acc.h, "TypeError"))
             ELSE IF ~TextLess(key.s, min_match) /\ ~TextLess(max_match, key.s)
             THEN SliceDict(c, h, data, depth, min_match, max_match, i + 1,
                            Join(acc, One(Walk(c, acc.h, e[2], depth + 1, data, key))))
             ELSE SliceDict(c, h, data, depth, min_match, max_match, i + 1, acc)

\* _get_nodes_by_anchor over a list, from element i on
AnchorList(c, h, data, depth, i, acc) ==
    IF acc.err # "none" \/ i >= ListLen(acc.h, data) THEN acc
    ELSE LET ele == ListGet(acc.h, data, i)
         IN  IF HasAnchorAttr(acc.h, ele) /\ c.path[depth].a = acc.h[ele].anchor
             THEN AnchorList(c, h, data, depth, i + 1,
                             Join(acc, One(Walk(c, acc.h, ele, depth + 1, data, IntRef(i)))))
             ELSE AnchorList(c, h, data, depth, i + 1, acc)

\* _get_nodes_by_anchor over a mapping, from the i-th entry of items() on
AnchorDict(c, h, data, depth, i, acc) ==
    IF acc.err # "none" \/ i > Len(EffEntries(acc.h, data)) THEN acc
    ELSE LET e == EffEntries(acc.h, data)[i]
         IN  IF \/ (HasAnchorAttr(acc.h, e[1]) /\ c.path[depth].a = acc.h[e[1]].anchor)
                \/ (HasAnchorAttr(acc.h, e[2]) /\ c.path[depth].a = acc.h[e[2]].anchor)
             THEN AnchorDict(c, h, data, depth, i + 1,
                             Join(acc, One(Walk(c, acc.h, e[2], depth + 1, data,
                                                KeyRef(acc.h, e[1])))))
             ELSE AnchorDict(c, h, data, depth, i + 1, acc)

get_nodes_by_anchor(c, h, data, depth) ==
    IF IsList(h, data) THEN AnchorList(c, h, data, depth, 0, Ok(h))
    ELSE IF IsDict(h, data) THEN AnchorDict(c, h, data, depth, 1, Ok(h))
    ELSE Ok(h)

\* (matches and not invert) or (invert and not matches)
Selected(matches, invert) == (matches /\ ~invert) \/ (invert /\ ~matches)

\* A coordinate is yielded for a match, or for a miss of an inverted search
Searched(c, sm, h, node, depth, parent, parentref) ==
    IF sm.err # "none" THEN Err(h, sm.err)
    ELSE IF Selected(sm.matches, c.path[depth].inv)
    THEN One(Walk(c, h, node, depth + 1, parent, parentref))
    ELSE Ok(h)

\* The local variable matches after element ele of a list: assigned when
\* the attribute is "." or ele is a mapping that has it, else left as it was
\* ("unbound" before its first assignment)
Matches(c, h, ele, depth, matches) ==
    IF c.path[depth].attr = <<".">>
    THEN search_matches(c.path[depth].method, c.path[depth].term, h, ele)
    ELSE IF IsDict(h, ele) /\ MapHas(h, ele, StrRef(c.path[depth].attr))
    THEN search_matches(c.path[depth].method, c.path[depth].term, h,
                        MapGet(h, ele, StrRef(c.path[depth].attr)))
    ELSE matches

SearchedEle(c, now, data, depth, i, acc) ==
    IF now.err # "none" THEN Join(acc, Err(acc.h, now.err))
    ELSE SearchList(c, acc.h, data, depth, i + 1, now,
                    IF Selected(now.matches, c.path[depth].inv)
                    THEN Join(acc, One(Walk(c, acc.h, ListGet(acc.h, data, i),
                                            depth + 1, data, IntRef(i))))
                    ELSE acc)

\* _get_nodes_by_search over a list, from element i on
SearchList(c, h, data, depth, i, matches, acc) ==
    IF acc.err # "none" \/ i >= ListLen(acc.h, data) THEN acc
    ELSE SearchedEle(c, Matches(c, acc.h, ListGet(acc.h, data, i), depth, matches),
                     data, depth, i, acc)

\* _get_nodes_by_search over the key names of a mapping (attribute "."),
\* from the i-th entry of items() on
SearchKeys(c, h, data, depth, i, acc) ==
    IF acc.err # "none" \/ i > Len(EffEntries(acc.h, data)) THEN acc
    ELSE SearchKeys(c, acc.h, data, depth, i + 1,
             Join(acc, Searched(c,
                 search_matches(c.path[depth].method, c.path[depth].term, acc.h,
                                EffEntries(acc.h, data)[i][1]),
                 acc.h, EffEntries(acc.h, data)[i][2], depth, data,
                 KeyRef(acc.h, EffEntries(acc.h, data)[i][1]))))

get_nodes_by_search(c, h, data, depth, parent, parentref) ==
    IF IsList(h, data)
    THEN SearchList(c, h, data, depth, 0, Raise("UnboundLocalError"), Ok(h))
    ELSE IF IsDict(h, data) THEN
        IF c.path[depth].attr = <<".">> THEN SearchKeys(c, h, data, depth, 1, Ok(h))
        ELSE IF MapHas(h, data, StrRef(c.path[depth].attr))
        THEN Searched(c, search_matches(c.path[depth].method, c.path[depth].term, h,
                                        MapGet(h, data, StrRef(c.path[depth].attr))),
                      h, MapGet(h, data, StrRef(c.path[depth].attr)), depth,
                      data, StrRef(c.path[depth].attr))
        ELSE Ok(h)
    ELSE Searched(c, search_matches(c.path[depth].method, c.path[depth].term, h, data),
                  h, data, depth, parent, parentref)

RECURSIVE StripCoord(_, _)
\* The node under any number of NodeCoords wrappers
StripCoord(h, i) == IF Kind(h, i) = "coord" THEN StripCoord(h, h[i].cn) ELSE i

RECURSIVE UnwrapEq(_, _, _)
\* unwrap_node_coords(a) == unwrap_node_coords(b)
UnwrapEq(h, a, b) ==
    LET x == StripCoord(h, a)
        y == StripCoord(h, b)
    IN  IF IsList(h, x) /\ IsList(h, y) THEN
            /\ ListLen(h, x) = ListLen(h, y)
            /\ \A i \in 1..ListLen(h, x) : UnwrapEq(h, h[x].ent[i][2], h[y].ent[i][2])
        ELSE IF IsList(h, x) \/ IsList(h, y) THEN FALSE
        ELSE DeepEq(h, x, y)

\* The context of the nested path of a Collector: _get_required_nodes,
\* consumed by the Collector itself
Inner(c, expr) == [c EXCEPT !.path = expr, !.mode = "req", !.upd = FALSE]

Flatten_Keep(h, node_coords) == node_coords

\* A lone collected coordinate whose node is a list becomes one coordinate
\* per element, each with the lone coordinate's parent
Flatten(h, node_coords) ==
    IF Len(node_coords) = 1 /\ IsList(h, node_coords[1].node)
    THEN [i \in 1..ListLen(h, node_coords[1].node) |->
             NodeCoords(h[node_coords[1].node].ent[i][2], node_coords[1].parent,
                        IntRef(i - 1))]
    ELSE node_coords

Added_NoFlatten(h, out) == out

RECURSIVE Added(_, _)
\* What an ADDITION appends for the coordinates out of its operand
Added(h, out) ==
    IF out = <<>> THEN <<>>
    ELSE LET nc == out[1]
             each == IF IsList(h, nc.node)
                     THEN [i \in 1..ListLen(h, nc.node) |->
                              LET x == h[nc.node].ent[i][2]
                              IN  IF Kind(h, x) = "coord"
                                  THEN NodeCoords(h[x].cn, h[x].cp, h[x].cr)
                                  ELSE NodeCoords(x, nc.node, IntRef(i - 1))]
                     ELSE <<nc>>
         IN  each \o Added(h, Tail(out))

RECURSIVE RemData(_, _)
\* rem_data of a SUBTRACTION for the coordinates out of its operand
RemData(h, out) ==
    IF out = <<>> THEN <<>>
    ELSE LET u == StripCoord(h, out[1].node)
             each == IF IsList(h, u)
                     THEN [i \in 1..ListLen(h, u) |-> h[u].ent[i][2]]
                     ELSE <<u>>
         IN  each \o RemData(h, Tail(out))

Subtracted(h, node_coords, rem_data) ==
    SelectSeq(node_coords,
              LAMBDA e : ~\E j \in 1..Len(rem_data) : UnwrapEq(h, e.node, rem_data[j]))

RECURSIVE Combine(_, _, _, _, _, _, _)
\* One adjoining Collector applied to the running result: r is what its
\* nested path resolved to
Combined(c, r, data, parent, parentref, next, node_coords) ==
    IF r.err # "none" THEN [h |-> r.h, ncs |-> node_coords, err |-> r.err]
    ELSE IF c.path[next].op = "ADDITION"
    THEN Combine(c, r.h, data, parent, parentref, next + 1,
                 node_coords \o Added(r.h, r.out))
    ELSE Combine(c, r.h, data, parent, parentref, next + 1,
                 Subtracted(r.h, node_coords, RemData(r.h, r.out)))

\* The loop over the adjoining Collector segments, from segment next on
Combine(c, h, data, parent, parentref, next, node_coords) ==
    IF next > Len(c.path) \/ c.path[next].t # "COLLECTOR"
    THEN [h |-> h, ncs |-> node_coords, err |-> "none"]
    ELSE IF c.path[next].op \notin {"ADDITION", "SUBTRACTION"}
    THEN [h |-> h, ncs |-> node_coords, err |-> "InvalidPath"]
    ELSE Combined(c, Walk(Inner(c, c.path[next].expr), h, data, 1, parent, parentref),
                  data, parent, parentref, next, node_coords)

RECURSIVE AllocCoords(_, _)
\* The NodeCoords objects of a list of coordinates, as objects of the heap
AllocCoords(h, node_coords) ==
    IF node_coords = <<>> THEN [h |-> h, ids |-> <<>>]
    ELSE LET nc == node_coords[1]
             r == AllocCoords(Append(h, Coord(nc.node, nc.parent, nc.ref)),
                              Tail(node_coords))
         IN  [h |-> r.h, ids |-> <<Len(h) + 1>> \o r.ids]

\* What _get_required_nodes / _get_optional_nodes do with what a COLLECTOR
\* segment yields: a list is walked as a virtual node without parent (only
\* by _get_required_nodes), anything else is read as a NodeCoords.
Relay(c, h, item, depth) ==
    IF c.mode = "req" /\ IsList(h, item)
    THEN One(Walk(c, h, item, depth + 1, 0, NoRef))
    ELSE IF Kind(h, item) = "coord"
    THEN One(Walk(c, h, h[item].cn, depth + 1, h[item].cp, h[item].cr))
    ELSE One(Err(h, "AttributeError"))

\* The list of the collected NodeCoords, yielded when there are any
Collected(c, l, depth) == Relay(c, l.h, l.id, depth)

CollectedCoords(c, a, depth) ==
    Collected(c, Alloc(a.h, PyList([i \in 1..Len(a.ids) |-> <<0, a.ids[i]>>])), depth)

CollectedChain(c, k, depth) ==
    IF k.err # "none" THEN Err(k.h, k.err)
    ELSE IF k.ncs = <<>> THEN Ok(k.h)
    ELSE CollectedCoords(c, AllocCoords(k.h, k.ncs), depth)

\* r is what the nested path of the Collector resolved to
CollectedFirst(c, r, data, depth, parent, parentref) ==
    IF r.err # "none" THEN Err(r.h, r.err)
    ELSE CollectedChain(c, Combine(c, r.h, data, parent, parentref, depth + 1,
                                   Flatten(r.h, r.out)), depth)

get_nodes_by_collector(c, h, data, depth, parent, parentref) ==
    IF c.path[depth].op # "NONE" THEN Relay(c, h, data, depth)
    ELSE CollectedFirst(c, Walk(Inner(c, c.path[depth].expr), h, data, 1,
                                parent, parentref),
                        data, depth, parent, parentref)

\* _get_nodes_by_path_segment: the coordinates of one segment, each passed on
\* to the segments after it
SegWalk(c, h, data, depth, parent, parentref) ==
    IF data = 0 THEN Ok(h)
    ELSE IF ~(depth <= Len(c.path)) THEN Ok(h)
    ELSE IF c.path[depth].t = "KEY" THEN get_nodes_by_key(c, h, data, depth)
    ELSE IF c.path[depth].t = "INDEX" THEN get_nodes_by_index(c, h, data, depth)
    ELSE IF c.path[depth].t = "ANCHOR" THEN get_nodes_by_anchor(c, h, data, depth)
    ELSE IF c.path[depth].t = "SEARCH"
    THEN get_nodes_by_search(c, h, data, depth, parent, parentref)
    ELSE IF c.path[depth].t = "COLLECTOR"
    THEN get_nodes_by_collector(c, h, data, depth, parent, parentref)
    ELSE Err(h, "NotImplementedError")

\* One element is appended, however far newidx is from the end
Extend_Once(c, h, data, depth, n) ==
    IF n <= 0 THEN h
    ELSE append_list_element(h, data,
             build_next_node(c.path, depth + 1, c.value), <<>>).h

\* for _ in range(len(data) - 1, newidx): append a new element, n times
Extend(c, h, data, depth, n) ==
    IF n <= 0 THEN h
    ELSE Extend(c,
                append_list_element(h, data,
                    build_next_node(c.path, depth + 1, c.value), <<>>).h,
                data, depth, n - 1)

\* Below a new element n of the list data
Appended(c, n, data, depth) ==
    Walk(c, n.h, n.id, depth + 1, data, IntRef(ListLen(n.h, data) - 1))

\* Below data[newidx], e being the heap with the list extended
Extended(c, e, data, depth, newidx) ==
    IF InRange(e, data, newidx)
    THEN Walk(c, e, ListGet(e, data, newidx), depth + 1, data, IntRef(newidx))
    ELSE Err(e, "IndexError")

\* data[key] = v, and below it
Keyed(c, k, v, data, depth) ==
    Walk(c, [v.h EXCEPT ![data].ent = Append(@, <<k, v.id>>)], v.id, depth + 1,
         data, StrRef(c.path[depth].a))

NewKey(c, k, data, depth) ==
    Keyed(c, k.id, Alloc(k.h, build_next_node(c.path, depth + 1, c.value)),
          data, depth)

\* _get_optional_nodes, when the segment matched nothing: add the missing
\* element and go on below it
Create(c, h, data, depth) ==
    IF IsList(h, data) THEN
        IF c.path[depth].t = "ANCHOR" THEN
            Appended(c, append_list_element(h, data,
                            build_next_node(c.path, depth + 1, c.value),
                            c.path[depth].a),
                     data, depth)
        ELSE IF c.path[depth].t \in {"INDEX", "KEY"} THEN
            IF ~IntParses(c.path[depth].a) THEN Err(h, "InvalidPath")
            ELSE Extended(c, Extend(c, h, data, depth,
                                    IntParsed(c.path[depth].a) - (ListLen(h, data) - 1)),
                          data, depth, IntParsed(c.path[depth].a))
        ELSE Err(h, "InvalidPath")
    ELSE IF IsDict(h, data) THEN
        IF c.path[depth].t = "ANCHOR" THEN Err(h, "InvalidPath")
        ELSE IF c.path[depth].t = "KEY"
        THEN NewKey(c, Alloc(h, PyStr(c.path[depth].a)), data, depth)
        ELSE Err(h, "InvalidPath")
    ELSE Err(h, "InvalidPath")

\* _get_optional_nodes after its loop over the segment's coordinates r: a
\* segment other than a SEARCH that matched nothing is created
Walked(c, r, data, depth) ==
    IF /\ c.mode = "opt"
       /\ r.err = "none"
       /\ r.m < 1
       /\ c.path[depth].t # "SEARCH"
    THEN Join(r, Create(c, r.h, data, depth))
    ELSE r

\* _get_required_nodes (c.mode = "req") and _get_optional_nodes ("opt")
Walk(c, h, data, depth, parent, parentref) ==
    IF data = 0 THEN Ok(h)
    ELSE IF ~(depth <= Len(c.path)) THEN Yield(c, h, data, parent, parentref)
    ELSE Walked(c, SegWalk(c, h, data, depth, parent, parentref), data, depth)

\* The context of a call
Ctx(data, path, value, mode, upd) ==
    [root |-> data, path |-> path, value |-> value, mode |-> mode,
     upd |-> upd, fmt |-> "DEFAULT"]

\* After the loop over the required nodes r: nothing matched is an error
Required(r) ==
    IF r.err = "none" /\ Len(r.out) < 1 THEN [r EXCEPT !.err = "NotFound"] ELSE r

get_nodes_NoRaise(h, data, path, mustexist, default_value) ==
    IF data = 0 THEN Ok(h)
    ELSE IF mustexist
    THEN Walk(Ctx(data, path, NoRef, "req", FALSE), h, data, 1, 0, NoRef)
    ELSE Walk(Ctx(data, path, default_value, "opt", FALSE), h, data, 1, 0, NoRef)

\* Processor.get_nodes(yaml_path, mustexist=, default_value=), consumed to
\* its end: the NodeCoords yielded, the heap afterwards, the error raised
get_nodes(h, data, path, mustexist, default_value) ==
    IF data = 0 THEN Ok(h)
    ELSE IF mustexist
    THEN Required(Walk(Ctx(data, path, NoRef, "req", FALSE), h, data, 1, 0, NoRef))
    ELSE Walk(Ctx(data, path, default_value, "opt", FALSE), h, data, 1, 0, NoRef)

\* Processor.set_value(yaml_path, value, mustexist=, value_format=): out is
\* the NodeCoords it was given and updated
set_value_as(h, data, path, value, mustexist, value_format) ==
    IF data = 0 THEN Ok(h)
    ELSE IF mustexist
    THEN Required(Walk([Ctx(data, path, value, "req", TRUE) EXCEPT !.fmt = value_format],
                       h, data, 1, 0, NoRef))
    ELSE Walk([Ctx(data, path, value, "opt", TRUE) EXCEPT !.fmt = value_format],
              h, data, 1, 0, NoRef)

\* Processor.set_value(yaml_path, value, mustexist=), value_format left at
\* its default
set_value(h, data, path, value, mustexist) ==
    set_value_as(h, data, path, value, mustexist, "DEFAULT")

-----------------------------------------------------------------------------
(* Documents, as ruamel.yaml loads them: [r |-> root id, h |-> heap].  A   *)
(* plain scalar is a Python str or int, an anchored scalar a wrapper that  *)
(* carries the anchor, an alias the very object of its anchor.             *)

\* No document: Processor(logger, None)
DocNone ==
    [r |-> 0,
     h |-> <<
     >>]

\* ka: 300
\* kb: {kc: xx}
\* kl: [301, yy]
\* kn: ~
DocPlain ==
    [r |-> 1,
     h |-> <<
         YMap(<<<<2, 3>>, <<4, 5>>, <<8, 9>>, <<12, 0>>>>, <<>>, <<>>), \* 1
         PyStr(<<"k", "a">>),                                           \* 2
         PyInt(300),                                                    \* 3
         PyStr(<<"k", "b">>),                                           \* 4
         YMap(<<<<6, 7>>>>, <<>>, <<>>),                                \* 5
         PyStr(<<"k", "c">>),                                           \* 6
         PyStr(<<"x", "x">>),                                           \* 7
         PyStr(<<"k", "l">>),                                           \* 8
         YSeq(<<<<0, 10>>, <<0, 11>>>>, <<>>),                          \* 9
         PyInt(301),                                                    \* 10
         PyStr(<<"y", "y">>),                                           \* 11
         PyStr(<<"k", "n">>)                                            \* 12
     >>]

\* ka: &an vv
\* kl: [*an, zz]
\* kb: {kc: *an, *an : 302}
DocAlias ==
    [r |-> 1,
     h |-> <<
         YMap(<<<<2, 3>>, <<4, 5>>, <<7, 8>>>>, <<>>, <<>>), \* 1
         PyStr(<<"k", "a">>),                                \* 2
         YStr(<<"v", "v">>, <<"a", "n">>),                   \* 3
         PyStr(<<"k", "l">>),                                \* 4
         YSeq(<<<<0, 3>>, <<0, 6>>>>, <<>>),                 \* 5
         PyStr(<<"z", "z">>),                                \* 6
         PyStr(<<"k", "b">>),                                \* 7
         YMap(<<<<9, 3>>, <<3, 10>>>>, <<>>, <<>>),          \* 8
         PyStr(<<"k", "c">>),                                \* 9
         PyInt(302)                                          \* 10
     >>]


-----------------------------------------------------------------------------
(* The Processor: one document is bound, then set_value and get_nodes are  *)
(* called on it with one path and one value.  res is the history of the    *)
(* calls: what each was given, yielded and raised, and the heap before it. *)

Docs == {DocNone, DocPlain, DocAlias}

Segs ==
    {KeySeg(<<"k", "a">>), KeySeg(<<"k", "b">>), KeySeg(<<"k", "c">>),
     KeySeg(<<"k", "l">>), KeySeg(<<"k", "n">>), KeySeg(<<"k", "z">>),
     IndexSeg(<<"0">>), IndexSeg(<<"2">>), IndexSeg(<<"0", ":", "1">>),
     AnchorSeg(<<"a", "n">>),
     SearchSeg(FALSE, "EQUALS", <<"k", "c">>, <<"x", "x">>)}

Paths == UNION {[1..n -> Segs] : n \in 1..MaxPathLen}

Values == {IntRef(7), StrRef(<<"n", "v">>)}

Called(call, mustexist, r, pre) ==
    [call |-> call, mustexist |-> mustexist, err |-> r.err, out |-> r.out,
     pre |-> pre]

Init ==
    /\ \E d \in Docs : heap = d.h /\ root = d.r
    /\ args \in [path : Paths, value : Values, mustexist : BOOLEAN]
    /\ pc = "start"
    /\ res = <<>>

\* A call returns: the document is as the call left it, and the call is
\* added to the history
Returned(call, mustexist, r) ==
    /\ heap' = r.h
    /\ res' = Append(res, Called(call, mustexist, r, heap))

\* processor.set_value(args.path, args.value, mustexist=args.mustexist)
SetValue ==
    /\ pc = "start"
    /\ Returned("set_value", args.mustexist,
                set_value(heap, root, args.path, args.value, args.mustexist))
    /\ pc' = "set"
    /\ UNCHANGED <<root, args>>

\* list(processor.get_nodes(args.path, mustexist=True))
GetNodes ==
    /\ pc \in {"start", "set"}
    /\ Returned("get_nodes", TRUE, get_nodes(heap, root, args.path, TRUE, NoRef))
    /\ pc' = IF pc = "start" THEN "got" ELSE "setgot"
    /\ UNCHANGED <<root, args>>

\* list(processor.get_nodes(args.path, default_value=args.value))
GetOptional ==
    /\ pc = "start"
    /\ Returned("get_nodes", FALSE,
                get_nodes(heap, root, args.path, FALSE, args.value))
    /\ pc' = "gotopt"
    /\ UNCHANGED <<root, args>>

Next == SetValue \/ GetNodes \/ GetOptional

Spec == Init /\ [][Next]_vars

-----------------------------------------------------------------------------
(* Properties of the Processor *)

\* The node is the value V: V == node in Python
ValueIs(h, node, V) ==
    \/ V.kt = "int" /\ Kind(h, node) = "int" /\ h[node].n = V.n
    \/ V.kt = "str" /\ Kind(h, node) = "str" /\ h[node].s = V.s

\* A path of KEY segments and of INDEX segments that name one position
KeyIndexPath(p) ==
    \A i \in 1..Len(p) :
        \/ p[i].t = "KEY"
        \/ p[i].t = "INDEX" /\ ColonPos(p[i].a) = 0

\* C1: for a bound document and a path P of KEY and INDEX segments, once
\* set_value(P, V) has returned, get_nodes(P, mustexist=true) yields at least
\* one handle and the value of every handle it yields equals V.
C1_SetThenGet ==
    (pc = "setgot" /\ root # 0 /\ KeyIndexPath(args.path) /\ res[1].err = "none") =>
        /\ res[2].err = "none"
        /\ Len(res[2].out) >= 1
        /\ \A i \in 1..Len(res[2].out) :
               ValueIs(heap, res[2].out[i].node, args.value)

\* C1 (the state that refutes it): set_value without mustexist returned
\* for a KEY path whose node is null, and nothing was set
C1_NullLeafKept ==
    /\ pc = "set"
    /\ KeyIndexPath(args.path) /\ Len(args.path) = 1
    /\ ~args.mustexist
    /\ res[1].err = "none" /\ res[1].out = <<>>
    /\ IsDict(heap, root) /\ MapHas(heap, root, StrRef(args.path[1].a))
    /\ MapGet(heap, root, StrRef(args.path[1].a)) = 0

\* The object t was targeted by the set_value call and is an anchored value
Targeted(t) ==
    /\ \E i \in 1..Len(res[1].out) : res[1].out[i].node = t
    /\ HasAnchorAttr(res[1].pre, t) /\ res[1].pre[t].anchor # <<>>

\* The object x was not in the document before the call and is the new value
NewValue(x) == x > Len(res[1].pre) /\ ValueIs(heap, x, args.value)

\* C2: after set_value on an anchored value that aliases share, every
\* location that held that object before the call (a sequence element, a
\* mapping value or a mapping key) holds the new value.
C2_AliasesUpdated ==
    (pc = "set" /\ res[1].err = "none") =>
        \A t \in 1..Len(res[1].pre) : Targeted(t) =>
            \A d \in 1..Len(res[1].pre) : \A j \in 1..Len(res[1].pre[d].ent) :
                /\ res[1].pre[d].ent[j][2] = t => NewValue(heap[d].ent[j][2])
                /\ res[1].pre[d].ent[j][1] = t => NewValue(heap[d].ent[j][1])

\* C2 (its case is reached): the targeted anchored value was held by a
\* sequence, by a mapping as a value and by a mapping as a key
C2_AliasesReached ==
    /\ pc = "set" /\ res[1].err = "none"
    /\ \E t \in 1..Len(res[1].pre) :
          /\ Targeted(t)
          /\ \E d \in 1..Len(res[1].pre) :
                IsList(res[1].pre, d) /\ \E j \in 1..Len(res[1].pre[d].ent) :
                    res[1].pre[d].ent[j][2] = t /\ NewValue(heap[d].ent[j][2])
          /\ \E d \in 1..Len(res[1].pre) :
                IsDict(res[1].pre, d) /\ \E j \in 1..Len(res[1].pre[d].ent) :
                    res[1].pre[d].ent[j][1] = t /\ NewValue(heap[d].ent[j][1])
          /\ Cardinality({d \in 1..Len(res[1].pre) :
                IsDict(res[1].pre, d) /\ \E j \in 1..Len(res[1].pre[d].ent) :
                    res[1].pre[d].ent[j][2] = t}) >= 2

\* A call that resolves with required semantics
MustExist(k) == res[k].call \in {"get_nodes", "set_value"} /\ res[k].mustexist

\* The call ended in an error other than NotFound
Failed(k) == res[k].err \notin {"none", "NotFound"}

-----------------------------------------------------------------------------
(* Collectors: a document is bound and a chain of Collectors is resolved   *)
(* with required semantics.                                                *)

\* ka: 300
\* kx: [300, 301]
\* ky: [301, 302]
\* kh: [{kv: [300, 303]}, {kv: [302]}]
DocCollect ==
    [r |-> 1,
     h |-> <<
         YMap(<<<<2, 3>>, <<4, 5>>, <<8, 9>>, <<12, 13>>>>, <<>>, <<>>), \* 1
         PyStr(<<"k", "a">>),                                            \* 2
         PyInt(300),                                                     \* 3
         PyStr(<<"k", "x">>),                                            \* 4
         YSeq(<<<<0, 6>>, <<0, 7>>>>, <<>>),                             \* 5
         PyInt(300),                                                     \* 6
         PyInt(301),                                                     \* 7
         PyStr(<<"k", "y">>),                                            \* 8
         YSeq(<<<<0, 10>>, <<0, 11>>>>, <<>>),                           \* 9
         PyInt(301),                                                     \* 10
         PyInt(302),                                                     \* 11
         PyStr(<<"k", "h">>),                                            \* 12
         YSeq(<<<<0, 14>>, <<0, 19>>>>, <<>>),                           \* 13
         YMap(<<<<15, 16>>>>, <<>>, <<>>),                               \* 14
         PyStr(<<"k", "v">>),                                            \* 15
         YSeq(<<<<0, 17>>, <<0, 18>>>>, <<>>),                           \* 16
         PyInt(300),                                                     \* 17
         PyInt(303),                                                     \* 18
         YMap(<<<<20, 21>>>>, <<>>, <<>>),                               \* 19
         PyStr(<<"k", "v">>),                                            \* 20
         YSeq(<<<<0, 22>>>>, <<>>),                                      \* 21
         PyInt(302)                                                      \* 22
     >>]


MaxChain == 2        \* Collectors adjoining the first one of a chain

\* The nested paths of the Collectors: ka, kx, ky, kh.kv and kz
Exprs ==
    {<<KeySeg(<<"k", "a">>)>>, <<KeySeg(<<"k", "x">>)>>, <<KeySeg(<<"k", "y">>)>>,
     <<KeySeg(<<"k", "h">>), KeySeg(<<"k", "v">>)>>, <<KeySeg(<<"k", "z">>)>>}

Adjoining == {CollectorSeg(op, e) : op \in {"NONE", "ADDITION", "SUBTRACTION"}, e \in Exprs}

\* (A), (A)+(B), (A)-(B)+(C), ...
Chains ==
    {<<CollectorSeg("NONE", e)>> \o t :
        e \in Exprs, t \in UNION {[1..n -> Adjoining] : n \in 0..MaxChain}}

InitCollect ==
    /\ heap = DocCollect.h /\ root = DocCollect.r
    /\ args \in [path : Chains, value : {NoRef}, mustexist : {TRUE}]
    /\ pc = "start"
    /\ res = <<>>

\* list(processor.get_nodes(args.path, mustexist=True)) for a chain
Collect ==
    /\ pc = "start"
    /\ Returned("get_nodes", TRUE, get_nodes(heap, root, args.path, TRUE, NoRef))
    /\ pc' = "collected"
    /\ UNCHANGED <<root, args>>

NextCollect == Collect

SpecCollect == InitCollect /\ [][NextCollect]_vars

-----------------------------------------------------------------------------
(* Properties of the Collectors *)

\* What a nested path resolves to in the bound document, with required
\* semantics
Resolved(expr) ==
    Walk(Ctx(root, expr, NoRef, "req", FALSE), heap, root, 1, 0, NoRef).out

\* The handles of the list a chain yielded, each as <<node, parentref>>
ChainResult ==
    IF res[1].out = <<>> THEN <<>>
    ELSE [i \in 1..ListLen(heap, res[1].out[1].node) |->
             <<heap[heap[res[1].out[1].node].ent[i][2]].cn,
               heap[heap[res[1].out[1].node].ent[i][2]].cr>>]

\* One handle per element of the sequence seq, with its position
Elements(seq) == [i \in 1..ListLen(heap, seq) |-> <<ListGet(heap, seq, i - 1), IntRef(i - 1)>>]

Handles(matches) == [i \in 1..Len(matches) |-> <<matches[i].node, matches[i].ref>>]

OneSequence(matches) == Len(matches) = 1 /\ IsList(heap, matches[1].node)

\* The result of a Collector without operator for the matches of its path
Bare(matches) ==
    IF OneSequence(matches) THEN Elements(matches[1].node) ELSE Handles(matches)

RECURSIVE EachFlat(_)
\* The matches, a match whose value is a sequence giving way to its elements
EachFlat(matches) ==
    IF matches = <<>> THEN <<>>
    ELSE (IF IsList(heap, matches[1].node) THEN Elements(matches[1].node)
          ELSE Handles(<<matches[1]>>)) \o EachFlat(Tail(matches))

\* The running result without the elements equal to one of the handles' values
Less(running, handles) ==
    SelectSeq(running, LAMBDA e :
        \A j \in 1..Len(handles) : ~UnwrapEq(heap, e[1], handles[j][1]))

RECURSIVE FoldStated(_, _)
\* The fold as stated: + appends the operand's result, - removes what
\* equals a value of the operand's result
FoldStated(running, k) ==
    IF k > Len(args.path) THEN running
    ELSE IF args.path[k].op = "ADDITION"
    THEN FoldStated(running \o Bare(Resolved(args.path[k].expr)), k + 1)
    ELSE FoldStated(Less(running, Bare(Resolved(args.path[k].expr))), k + 1)

RECURSIVE FoldFlat(_, _)
\* The fold with every sequence matched by an operand replaced by its
\* elements
FoldFlat(running, k) ==
    IF k > Len(args.path) THEN running
    ELSE IF args.path[k].op = "ADDITION"
    THEN FoldFlat(running \o EachFlat(Resolved(args.path[k].expr)), k + 1)
    ELSE FoldFlat(Less(running, EachFlat(Resolved(args.path[k].expr))), k + 1)

\* (A) op (B) op (C) ... with every op a + or a -
Operators == \A k \in 2..Len(args.path) : args.path[k].op \in {"ADDITION", "SUBTRACTION"}

\* C4 (as stated): a chain of Collectors yields the left-to-right fold over
\* the Collectors' results: + appends the operand's matches, - removes every
\* element whose unwrapped value is deep-equal to a value the operand matched.
C4_FoldOfResults ==
    (pc = "collected" /\ Operators) =>
        ChainResult = FoldStated(Bare(Resolved(args.path[1].expr)), 2)

\* C4 (amended): a chain of Collectors yields the left-to-right fold in
\* which + appends, for each match of the operand in order, the match itself
\* or, when its value is a sequence, one handle per element of it, and -
\* removes every element whose unwrapped value is deep-equal to a value the
\* operand matched or to an element of a sequence the operand matched.
C4_FoldOfFlatResults ==
    (pc = "collected" /\ Operators) =>
        /\ ChainResult = FoldFlat(Bare(Resolved(args.path[1].expr)), 2)
        /\ res[1].err = IF ChainResult = <<>> THEN "NotFound" ELSE "none"

\* C4 (its case is reached): a chain (A)+(B)-(C) that added and removed
\* handles
C4_FoldReached ==
    /\ pc = "collected" /\ Len(args.path) = 3
    /\ args.path[2].op = "ADDITION" /\ args.path[3].op = "SUBTRACTION"
    /\ res[1].err = "none"
    /\ Len(ChainResult) > Len(Bare(Resolved(args.path[1].expr)))
    /\ Len(ChainResult) < Len(Bare(Resolved(args.path[1].expr)))
                          + Len(EachFlat(Resolved(args.path[2].expr)))

\* C5: a Collector without operator whose path resolves to one handle with
\* a sequence as value yields that sequence's elements in order, each with
\* its position; one whose path resolves to two or more handles, or to one
\* handle whose value is no sequence, yields the resolved handles unchanged.
C5_BareCollector ==
    (pc = "collected" /\ Len(args.path) = 1) =>
        /\ ChainResult = IF OneSequence(Resolved(args.path[1].expr))
                         THEN Elements(Resolved(args.path[1].expr)[1].node)
                         ELSE Handles(Resolved(args.path[1].expr))
        /\ res[1].err = IF ChainResult = <<>> THEN "NotFound" ELSE "none"

\* C5 (its case is reached): the lone match was a sequence of two elements
\* and the Collector yielded the two
C5_FlattenReached ==
    /\ pc = "collected" /\ Len(args.path) = 1
    /\ OneSequence(Resolved(args.path[1].expr))
    /\ Len(ChainResult) = 2
    /\ res[1].err = "none"

-----------------------------------------------------------------------------
(* search_matches: one haystack, one needle, one method *)

Haystacks == {PyInt(5), PyInt(-1), PyFloat(1500), PyFloat(-500), PyStr(<<"1", "5">>)}

NeedleChars == {"1", "5", "a", ".", "-"}

Needles == UNION {[1..n -> NeedleChars] : n \in 0..MaxNeedleLen}

Methods == Relational \cup {"STARTS_WITH", "ENDS_WITH", "CONTAINS", "REGEX"}

InitSearch ==
    /\ \E o \in Haystacks : heap = <<o>>
    /\ root = 1
    /\ args \in [method : Methods, needle : Needles]
    /\ pc = "start"
    /\ res = <<>>

\* search_matches(args.method, args.needle, haystack)
Search ==
    /\ pc = "start"
    /\ res' = <<search_matches(args.method, args.needle, heap, root)>>
    /\ pc' = "searched"
    /\ UNCHANGED <<heap, root, args>>

NextSearch == Search

SpecSearch == InitSearch /\ [][NextSearch]_vars

\* The needle is no number of the haystack's kind
NoNumber(needle) ==
    \/ Kind(heap, root) = "int" /\ ~IntParses(needle)
    \/ Kind(heap, root) = "float" /\ ~FloatParses(needle)

\* C6: for = > < >= <=, an int or float haystack and a needle that does not
\* parse as a number of the haystack's kind, search_matches returns false
\* and raises nothing.
C6_NoMatchNoError ==
    (pc = "searched" /\ args.method \in Relational /\ NoNumber(args.needle)) =>
        res[1] = Match(FALSE)

\* C6 (its case is reached): 1.5 >= "1-" was decided
C6_NoNumberReached ==
    /\ pc = "searched"
    /\ args.method = "GREATER_THAN_OR_EQUAL"
    /\ heap[root] = PyFloat(1500)
    /\ args.needle = <<"1", "-">>
    /\ NoNumber(args.needle)
    /\ res[1] = Match(FALSE)

-----------------------------------------------------------------------------
(* eyaml/eyamlprocessor.py.  A value handed to is_eyaml_value or           *)
(* decrypt_eyaml is an object record: a str, another scalar, None or a     *)
(* NodeCoords.                                                             *)

Obj(h, i) == IF i = 0 THEN NoneObj ELSE h[i]

EncMarker == <<"E", "N", "C", "[">>

\* EYAMLProcessor.is_eyaml_value(value)
is_eyaml_value(value) ==
    IF value.k # "str" THEN FALSE
    ELSE StartsWith(Without(Without(value.s, {"\n"}), {" "}), EncMarker)

\* str(k) of a mapping key
StrOfKey(h, kid) ==
    IF Kind(h, kid) = "int" THEN TextOfInt(h[kid].n)
    ELSE IF Kind(h, kid) = "str" THEN h[kid].s
    ELSE <<"N", "o", "n", "e">>

\* data.items(): every entry, those merged in by << included
all_items(h, data) == EffEntries(h, data)

\* data.non_merged_items(): the entries the mapping itself declares
non_merged_items(h, data) == h[data].ent

\* tmp_path of the element ele at index i of a sequence
tmp_path(h, build_path, i, ele) ==
    IF HasAnchorAttr(h, ele) /\ h[ele].anchor # <<>>
    THEN build_path \o <<"&">> \o h[ele].anchor \o <<"]">>
    ELSE build_path \o TextOfInt(i) \o <<"]">>

\* yield Path(tmp_path) if the value is an EYAML value.  node is not part of
\* what is yielded: it records which value the path was built for.
YieldPath(h, val, path) ==
    IF is_eyaml_value(Obj(h, val)) THEN <<[path |-> path, node |-> val]>> ELSE <<>>

RECURSIVE find_eyaml_paths_in(_, _, _)
RECURSIVE EachElement(_, _, _, _)
RECURSIVE EachItem(_, _, _, _)

\* One turn of either loop: the path of the value, then those below it
Visit(h, val, path) == YieldPath(h, val, path) \o find_eyaml_paths_in(h, val, path)

\* for i, ele in enumerate(data), from position i + 1 of the entries on
EachElement(h, data, build_path, i) ==
    IF i >= Len(h[data].ent) THEN <<>>
    ELSE Visit(h, h[data].ent[i + 1][2],
               tmp_path(h, build_path, i, h[data].ent[i + 1][2]))
         \o EachElement(h, data, build_path, i + 1)

\* for k, val in items, from position j on
EachItem(h, items, build_path, j) ==
    IF j > Len(items) THEN <<>>
    ELSE Visit(h, items[j][2], build_path \o StrOfKey(h, items[j][1]))
         \o EachItem(h, items, build_path, j + 1)

\* EYAMLProcessor._find_eyaml_paths(data, build_path)
find_eyaml_paths_in(h, data, build_path) ==
    IF IsList(h, data) /\ h[data].attr
    THEN EachElement(h, data, build_path \o <<"[">>, 0)
    ELSE IF IsDict(h, data)
    THEN EachItem(h, non_merged_items(h, data),
                  IF build_path # <<>> THEN build_path \o <<".">> ELSE build_path, 1)
    ELSE <<>>

\* EYAMLProcessor.find_eyaml_paths()
find_eyaml_paths(h, data) == find_eyaml_paths_in(h, data, <<>>)

\* An eyaml command that holds a matching pair of keys: it enciphers,
\* character by character, all that it reads; its decrypt undoes that.
PlainChars == <<"p", "t", " ", "\n", "E", "N", "C", "[", "]", "x", "n", "w", "A">>
CipherChars == <<"q", "u", "_", "~", "F", "O", "D", "(", ")", "X", "M", "V", "Z">>

Encipher(t) ==
    [i \in 1..Len(t) |->
        CipherChars[CHOOSE j \in 1..Len(PlainChars) : PlainChars[j] = t[i]]]

IsCipher(t) == \A i \in 1..Len(t) : \E j \in 1..Len(CipherChars) : CipherChars[j] = t[i]

Decipher(t) ==
    [i \in 1..Len(t) |->
        PlainChars[CHOOSE j \in 1..Len(CipherChars) : CipherChars[j] = t[i]]]

\* What "eyaml encrypt --quiet --stdin --output=..." writes for its input:
\* one line for string, lines indented by spaces for block
EyamlEncrypts(bval, output) ==
    IF output = "block"
    THEN <<" ", " ">> \o EncMarker \o <<"\n", " ", " ">> \o Encipher(bval)
             \o <<"]", "\n">>
    ELSE EncMarker \o Encipher(bval) \o <<"]", "\n">>

\* What "eyaml decrypt --quiet --stdin" writes for a line ENC[...] it can
\* decipher, and nothing when the line is not of that form
EyamlDecrypts(bval) ==
    IF /\ Len(bval) >= Len(EncMarker) + 2
       /\ StartsWith(bval, EncMarker)
       /\ SubSeq(bval, Len(bval) - 1, Len(bval)) = <<"]", "\n">>
       /\ IsCipher(SubSeq(bval, Len(EncMarker) + 1, Len(bval) - 2))
    THEN Decipher(SubSeq(bval, Len(EncMarker) + 1, Len(bval) - 2))
    ELSE <<>>

\* text.rstrip()
RECURSIVE RStrip(_)
RStrip(t) ==
    IF t # <<>> /\ t[Len(t)] \in {" ", "\n", "\t"}
    THEN RStrip(SubSeq(t, 1, Len(t) - 1))
    ELSE t

\* cleanval of decrypt_eyaml
CleanVal(value) == RStrip(Without(Without(value.s, {"\n"}), {" "}))

\* subprocess.run(cmd, stdout=PIPE, input=bval) of the eyaml command: the
\* command proc decides its exit status and what it writes, here nothing,
\* its input unchanged, or some other text
Plaintext == <<"p", "t">>

run(proc, bval) ==
    [returncode |-> proc.status,
     stdout |-> IF proc.writes = "nothing" THEN <<>>
                ELSE IF proc.writes = "input" THEN bval
                ELSE IF proc.writes = "text" THEN Plaintext \o <<"\n">>
                ELSE EyamlDecrypts(bval)]

Returns(value) == [val |-> value, err |-> "none"]
Raises(e) == [val |-> NoneObj, err |-> e]

\* The test of the output, as run() is called without check=True and so
\* never raises CalledProcessError whatever the return code
Decrypted(value, completed) ==
    IF RStrip(completed.stdout) = <<>> \/ RStrip(completed.stdout) = CleanVal(value)
    THEN Raises("EYAMLCommandException")
    ELSE Returns(PyStr(RStrip(completed.stdout)))

\* decrypt_eyaml asking for the eyaml command before it looks at the value
decrypt_eyaml_NeedsBinary(value, can_run_eyaml, proc) ==
    IF ~can_run_eyaml THEN Raises("EYAMLCommandException")
    ELSE IF ~is_eyaml_value(value) THEN Returns(value)
    ELSE Decrypted(value, run(proc, CleanVal(value) \o <<"\n">>))

\* EYAMLProcessor.decrypt_eyaml(value); can_run_eyaml is _can_run_eyaml()
decrypt_eyaml(value, can_run_eyaml, proc) ==
    IF ~is_eyaml_value(value) THEN Returns(value)
    ELSE IF ~can_run_eyaml THEN Raises("EYAMLCommandException")
    ELSE Decrypted(value, run(proc, CleanVal(value) \o <<"\n">>))

RECURSIVE DecryptEach(_, _, _, _, _)
\* The loop of get_eyaml_values over the NodeCoords that get_nodes yields:
\* decrypt_eyaml is handed each NodeCoords as it comes
DecryptEach(nodes, i, can_run_eyaml, proc, acc) ==
    IF i > Len(nodes) THEN Returns(acc)
    ELSE LET plain_text == decrypt_eyaml(
                 Coord(nodes[i].node, nodes[i].parent, nodes[i].ref),
                 can_run_eyaml, proc)
         IN  IF plain_text.err # "none" THEN [val |-> acc, err |-> plain_text.err]
             ELSE DecryptEach(nodes, i + 1, can_run_eyaml, proc,
                              Append(acc, plain_text.val))

\* What get_eyaml_values has yielded and raised once got, the call of
\* get_nodes, has run to its end
Yielded(got, can_run_eyaml, proc) ==
    [h |-> got.h, nodes |-> got.out,
     out |-> DecryptEach(got.out, 1, can_run_eyaml, proc, <<>>).val,
     err |-> IF DecryptEach(got.out, 1, can_run_eyaml, proc, <<>>).err # "none"
             THEN DecryptEach(got.out, 1, can_run_eyaml, proc, <<>>).err
             ELSE got.err]

\* EYAMLProcessor.get_eyaml_values(yaml_path, mustexist=, default_value=)
get_eyaml_values(h, data, path, mustexist, default_value, can_run_eyaml, proc) ==
    Yielded(get_nodes(h, data, path, mustexist, default_value), can_run_eyaml, proc)

-----------------------------------------------------------------------------
(* YAMLPath(text): the parser of path text, after the grammar of YAML      *)
(* Paths.  A back-slash makes the next character part of a key; the        *)
(* separator is "/" when the text starts with it and "." otherwise; a run  *)
(* of other characters is a KEY; [N] and [min:max] are an INDEX and        *)
(* [&name] is an ANCHOR.  Searches and Collectors are not parsed here.     *)

Parsed(segments) == [segments |-> segments, err |-> "none"]

seperator(t) == IF t # <<>> /\ t[1] = "/" THEN "/" ELSE "."

\* The segments so far and the KEY collected in buf, if any
WithKey(segments, buf) ==
    IF buf = <<>> THEN segments ELSE Append(segments, KeySeg(buf))

\* Position of the first "]" after position i of t, or 0
ClosePos(t, i) ==
    IF \E j \in (i + 1)..Len(t) : t[j] = "]"
    THEN CHOOSE j \in (i + 1)..Len(t) :
             t[j] = "]" /\ \A m \in (i + 1)..(j - 1) : t[m] # "]"
    ELSE 0

IsIndexText(t) ==
    \/ IsIntText(t)
    \/ ColonPos(t) # 0 /\ \A i \in 1..Len(t) : IsDigit(t[i]) \/ t[i] \in {":", "-"}

RECURSIVE Scan(_, _, _, _, _)
Scan(t, i, buf, segments, sep) ==
    IF i > Len(t) THEN Parsed(WithKey(segments, buf))
    ELSE IF t[i] = "\\" THEN
        IF i < Len(t) THEN Scan(t, i + 2, Append(buf, t[i + 1]), segments, sep)
        ELSE Scan(t, i + 1, buf, segments, sep)
    ELSE IF t[i] = sep THEN Scan(t, i + 1, <<>>, WithKey(segments, buf), sep)
    ELSE IF t[i] = "[" THEN
        IF ClosePos(t, i) = 0 THEN [segments |-> <<>>, err |-> "YAMLPathException"]
        ELSE IF t[i + 1] = "&" THEN
            Scan(t, ClosePos(t, i) + 1, <<>>,
                 Append(WithKey(segments, buf),
                        AnchorSeg(SubSeq(t, i + 2, ClosePos(t, i) - 1))), sep)
        ELSE IF IsIndexText(SubSeq(t, i + 1, ClosePos(t, i) - 1)) THEN
            Scan(t, ClosePos(t, i) + 1, <<>>,
                 Append(WithKey(segments, buf),
                        IndexSeg(SubSeq(t, i + 1, ClosePos(t, i) - 1))), sep)
        ELSE [segments |-> <<>>, err |-> "YAMLPathException"]
    ELSE Scan(t, i + 1, Append(buf, t[i]), segments, sep)

YAMLPath(t) == Scan(t, 1, <<>>, <<>>, seperator(t))

\* get_nodes(text, mustexist=True): the text is parsed, then resolved
Resolve(h, data, parsed) ==
    IF parsed.err # "none" THEN Err(h, parsed.err)
    ELSE IF parsed.segments = <<>> THEN Err(h, "NotFound")
    ELSE get_nodes(h, data, parsed.segments, TRUE, NoRef)

get_nodes_of_text(h, data, t) == Resolve(h, data, YAMLPath(t))

-----------------------------------------------------------------------------
(* The EYAMLProcessor over documents that hold EYAML values *)

\* al: [&si ENC[a], &sp "ENC[ b]", pl, ENC[c]]
\* ba: &bs {se: ENC[d], pt: xx}
\* de: {<<: *bs, ow: *si, nv: ENC[e]}
DocEyaml ==
    [r |-> 1,
     h |-> <<
         YMap(<<<<2, 3>>, <<8, 9>>, <<14, 15>>>>, <<>>, <<>>),      \* 1
         PyStr(<<"a", "l">>),                                       \* 2
         YSeq(<<<<0, 4>>, <<0, 5>>, <<0, 6>>, <<0, 7>>>>, <<>>),    \* 3
         YStr(<<"E", "N", "C", "[", "a", "]">>, <<"s", "i">>),      \* 4
         YStr(<<"E", "N", "C", "[", " ", "b", "]">>, <<"s", "p">>), \* 5
         PyStr(<<"p", "l">>),                                       \* 6
         PyStr(<<"E", "N", "C", "[", "c", "]">>),                   \* 7
         PyStr(<<"b", "a">>),                                       \* 8
         YMap(<<<<10, 11>>, <<12, 13>>>>, <<"b", "s">>, <<>>),      \* 9
         PyStr(<<"s", "e">>),                                       \* 10
         YStr(<<"E", "N", "C", "[", "d", "]">>, <<>>),              \* 11
         PyStr(<<"p", "t">>),                                       \* 12
         PyStr(<<"x", "x">>),                                       \* 13
         PyStr(<<"d", "e">>),                                       \* 14
         YMap(<<<<16, 4>>, <<17, 18>>>>, <<>>, <<9>>),              \* 15
         PyStr(<<"o", "w">>),                                       \* 16
         PyStr(<<"n", "v">>),                                       \* 17
         PyStr(<<"E", "N", "C", "[", "e", "]">>)                    \* 18
     >>]

\* k.d: ENC[f]
\* k: {d: ww}
\* kq: [{ks: ENC[g]}]
DocDotted ==
    [r |-> 1,
     h |-> <<
         YMap(<<<<2, 3>>, <<4, 5>>, <<8, 9>>>>, <<>>, <<>>), \* 1
         PyStr(<<"k", ".", "d">>),                           \* 2
         PyStr(<<"E", "N", "C", "[", "f", "]">>),            \* 3
         PyStr(<<"k">>),                                     \* 4
         YMap(<<<<6, 7>>>>, <<>>, <<>>),                     \* 5
         PyStr(<<"d">>),                                     \* 6
         PyStr(<<"w", "w">>),                                \* 7
         PyStr(<<"k", "q">>),                                \* 8
         YSeq(<<<<0, 10>>>>, <<>>),                          \* 9
         YMap(<<<<11, 12>>>>, <<>>, <<>>),                   \* 10
         PyStr(<<"k", "s">>),                                \* 11
         YStr(<<"E", "N", "C", "[", "g", "]">>, <<>>)        \* 12
     >>]


EyamlDocs == {DocEyaml, DocDotted, DocPlain}

\* The YAML Paths handed to get_eyaml_values
EyamlPaths ==
    {<<KeySeg(<<"a", "l">>), AnchorSeg(<<"s", "i">>)>>,
     <<KeySeg(<<"a", "l">>), IndexSeg(<<"2">>)>>,
     <<KeySeg(<<"a", "l">>), IndexSeg(<<"0", ":", "4">>)>>,
     <<KeySeg(<<"d", "e">>), KeySeg(<<"s", "e">>)>>,
     <<KeySeg(<<"d", "e">>), KeySeg(<<"n", "v">>)>>,
     <<KeySeg(<<"k", ".", "d">>)>>,
     <<KeySeg(<<"k", "a">>)>>,
     <<KeySeg(<<"k", "z">>)>>}

\* The values handed to decrypt_eyaml
EyamlValues ==
    {PyStr(<<"E", "N", "C", "[", "a", "]">>),
     YStr(<<"E", "N", " ", "C", "[", "\n", "b", "]", "\n">>, <<>>),
     PyStr(<<"x", "x">>),
     PyStr(<<" ", "x", "E", "N", "C", "[", "a", "]">>),
     PyStr(<<>>),
     PyInt(300),
     NoneObj}

\* What the eyaml command may do
Procs == [status : {0, 1}, writes : {"nothing", "input", "text"}]

InitEyaml ==
    /\ \E doc \in EyamlDocs : heap = doc.h /\ root = doc.r
    /\ args \in [path : EyamlPaths, mustexist : BOOLEAN, value : EyamlValues,
                 can_run_eyaml : BOOLEAN, proc : Procs]
    /\ pc = "start"
    /\ res = <<>>

\* for path in find_eyaml_paths(): ...
FindPaths ==
    /\ pc = "start"
    /\ res' = <<[call |-> "find_eyaml_paths", out |-> find_eyaml_paths(heap, root)]>>
    /\ pc' = "found"
    /\ UNCHANGED <<heap, root, args>>

\* get_nodes(path, mustexist=True) for each path that was found
ResolvePaths ==
    /\ pc = "found"
    /\ res' = Append(res,
           [call |-> "get_nodes",
            out |-> [i \in 1..Len(res[1].out) |->
                        get_nodes_of_text(heap, root, res[1].out[i].path)]])
    /\ pc' = "resolved"
    /\ UNCHANGED <<heap, root, args>>

\* decrypt_eyaml(value)
Decrypt ==
    /\ pc = "start"
    /\ res' = <<decrypt_eyaml(args.value, args.can_run_eyaml, args.proc)>>
    /\ pc' = "decrypted"
    /\ UNCHANGED <<heap, root, args>>

GotValues(r) ==
    /\ heap' = r.h
    /\ res' = <<[call |-> "get_eyaml_values", nodes |-> r.nodes, out |-> r.out,
                 err |-> r.err, pre |-> heap]>>

\* for value in get_eyaml_values(path, mustexist=...): ...
GetValues ==
    /\ pc = "start"
    /\ GotValues(get_eyaml_values(heap, root, args.path, args.mustexist, NoRef,
                                  args.can_run_eyaml, args.proc))
    /\ pc' = "values"
    /\ UNCHANGED <<root, args>>

NextEyaml == FindPaths \/ ResolvePaths \/ Decrypt \/ GetValues

SpecEyaml == InitEyaml /\ [][NextEyaml]_vars

-----------------------------------------------------------------------------
(* Properties of the EYAMLProcessor *)

MaxDepth == 4        \* steps of a route from the root of a document

\* A route names a location of the document by the positions, among the
\* declared entries or the elements, taken at each step down from the root.
Width(h) == CHOOSE w \in 0..Len(h) :
                /\ \A i \in 1..Len(h) : Len(h[i].ent) <= w
                /\ \E i \in 1..Len(h) : Len(h[i].ent) = w

Routes(h) == UNION {[1..n -> 1..Width(h)] : n \in 1..MaxDepth}

RECURSIVE RouteEnd(_, _, _)
\* The value at the end of a route from d, or -1 when there is no such place
RouteEnd(h, d, route) ==
    IF route = <<>> THEN d
    ELSE IF ~(IsDict(h, d) \/ IsList(h, d)) THEN -1
    ELSE IF route[1] > Len(h[d].ent) THEN -1
    ELSE RouteEnd(h, h[d].ent[route[1]][2], Tail(route))

\* How one step is written: [&name] or [index] into a sequence, the key
\* after a separator into a mapping
StepText(h, d, pos, before) ==
    IF IsList(h, d)
    THEN IF NameOf(h, h[d].ent[pos][2]) # <<>>
         THEN before \o <<"[", "&">> \o NameOf(h, h[d].ent[pos][2]) \o <<"]">>
         ELSE before \o <<"[">> \o TextOfInt(pos - 1) \o <<"]">>
    ELSE IF before = <<>> THEN StrOfKey(h, h[d].ent[pos][1])
    ELSE before \o <<".">> \o StrOfKey(h, h[d].ent[pos][1])

RECURSIVE RouteText(_, _, _, _)
RouteText(h, d, route, before) ==
    IF route = <<>> THEN before
    ELSE RouteText(h, h[d].ent[route[1]][2], Tail(route),
                   StepText(h, d, route[1], before))

\* The locations at which the document declares an encrypted scalar
Declared(h, d) ==
    {route \in Routes(h) :
        /\ RouteEnd(h, d, route) > 0
        /\ is_eyaml_value(h[RouteEnd(h, d, route)])}

\* Depth-first document order of two locations
Before(a, b) ==
    \E i \in 1..Min(Len(a), Len(b)) :
        a[i] < b[i] /\ \A j \in 1..(i - 1) : a[j] = b[j]

Nth(S, i) == CHOOSE r \in S : Cardinality({q \in S : Before(q, r)}) = i - 1

\* The paths that would name the encrypted entries which the mapping m, at
\* the end of a route written as text, only takes over through a merge key
InheritedAt(h, m, text) ==
    IF ~(m > 0 /\ IsDict(h, m)) THEN {}
    ELSE {(IF text = <<>> THEN <<>> ELSE text \o <<".">>)
               \o StrOfKey(h, EffEntries(h, m)[j][1]) :
            j \in {j \in (Len(h[m].ent) + 1)..Len(EffEntries(h, m)) :
                      is_eyaml_value(Obj(h, EffEntries(h, m)[j][2]))}}

Inherited(h, d) ==
    UNION {InheritedAt(h, RouteEnd(h, d, route), RouteText(h, d, route, <<>>)) :
              route \in {r \in Routes(h) \cup {<<>>} : RouteEnd(h, d, r) > 0}}

Found == res[1].out

PathsFound == {Found[i].path : i \in 1..Len(Found)}

\* C7: find_eyaml_paths yields, in depth-first document order, exactly one
\* path for every location at which the document itself declares an
\* encrypted scalar, written with [&name] for an anchored element of a
\* sequence, [index] for another element and the key after the separator for
\* an entry of a mapping; it yields no path for an entry that a mapping only
\* inherits through a merge key.
C7_DeclaredInOrder ==
    pc = "found" =>
        /\ Len(Found) = Cardinality(Declared(heap, root))
        /\ \A i \in 1..Len(Found) :
              Found[i].path =
                  RouteText(heap, root, Nth(Declared(heap, root), i), <<>>)
        /\ PathsFound \cap Inherited(heap, root) = {}

\* C7 (its case is reached): anchored and plain elements, declared entries
\* and an alias were found in a document that also inherits an encrypted
\* entry, de.se, through a merge key
C7_DeclaredReached ==
    /\ pc = "found"
    /\ <<"d", "e", ".", "s", "e">> \in Inherited(heap, root)
    /\ [i \in 1..Len(Found) |-> Found[i].path] =
          << <<"a", "l", "[", "&", "s", "i", "]">>,
             <<"a", "l", "[", "&", "s", "p", "]">>,
             <<"a", "l", "[", "3", "]">>,
             <<"b", "a", ".", "s", "e">>,
             <<"d", "e", ".", "o", "w">>,
             <<"d", "e", ".", "n", "v">> >>

Resolved8 == res[2].out

\* C8: every path yielded by find_eyaml_paths, resolved against the same
\* document with required semantics, yields the encrypted scalar for which
\* the path was emitted, also when a key on the way holds the separator.
C8_PathsResolveBack ==
    pc = "resolved" =>
        \A i \in 1..Len(Found) :
            /\ Resolved8[i].err = "none"
            /\ Len(Resolved8[i].out) = 1
            /\ Resolved8[i].out[1].node = Found[i].node

\* C8 (the divergence is reached): the path found for the entry k.d leads
\* to another node than the encrypted scalar
C8_OtherNodeReached ==
    /\ pc = "resolved"
    /\ \E i \in 1..Len(Found) :
          /\ Found[i].path = <<"k", ".", "d">>
          /\ Resolved8[i].err = "none"
          /\ Resolved8[i].out[1].node # Found[i].node
          /\ ~is_eyaml_value(Obj(heap, Resolved8[i].out[1].node))

\* What the eyaml command returned to decrypt_eyaml(args.value)
Completed == run(args.proc, CleanVal(args.value) \o <<"\n">>)

\* C9: decrypt_eyaml of a value recognised as encrypted raises
\* EYAMLCommandException and returns no plaintext when the command exits
\* with a non-zero status, writes nothing, or writes the normalised
\* ciphertext.
C9_FailuresRaise ==
    (/\ pc = "decrypted"
     /\ is_eyaml_value(args.value)
     /\ \/ Completed.returncode # 0
        \/ RStrip(Completed.stdout) = <<>>
        \/ RStrip(Completed.stdout) = CleanVal(args.value))
    => res[1] = Raises("EYAMLCommandException")

\* C9 (the divergence is reached): the command failed and what it wrote was
\* returned as the plaintext
C9_FailedExitReturned ==
    /\ pc = "decrypted"
    /\ is_eyaml_value(args.value)
    /\ args.can_run_eyaml
    /\ Completed.returncode = 1
    /\ res[1] = Returns(PyStr(Plaintext))

\* C10: with a working eyaml command, get_eyaml_values yields for each
\* handle that get_nodes resolves, in the same order, the plaintext of the
\* handle's value when that is an encrypted scalar and the value itself
\* when it is not; never a node handle.
C10_PlaintextYielded ==
    (/\ pc = "values"
     /\ args.can_run_eyaml
     /\ args.proc = [status |-> 0, writes |-> "text"])
    => /\ Len(res[1].out) = Len(res[1].nodes)
       /\ \A i \in 1..Len(res[1].out) :
             res[1].out[i] =
                 IF is_eyaml_value(Obj(heap, res[1].nodes[i].node))
                 THEN PyStr(Plaintext)
                 ELSE Obj(heap, res[1].nodes[i].node)

\* C10 (the divergence is reached): the handle of an encrypted scalar was
\* yielded as it came from get_nodes
C10_HandleYielded ==
    /\ pc = "values"
    /\ args.can_run_eyaml
    /\ args.proc = [status |-> 0, writes |-> "text"]
    /\ res[1].err = "none"
    /\ \E i \in 1..Len(res[1].out) :
          /\ is_eyaml_value(Obj(heap, res[1].nodes[i].node))
          /\ res[1].out[i].k = "coord"
          /\ res[1].out[i].cn = res[1].nodes[i].node

-----------------------------------------------------------------------------
(* eyamlprocessor.py: encrypt_eyaml and set_eyaml_value *)

\* subprocess.run(cmd, stdout=PIPE, input=bval, check=True) of the encrypt
\* command
run_encrypt(proc, bval, output) ==
    [returncode |-> proc.status,
     stdout |-> IF proc.writes = "nothing" THEN <<>>
                ELSE EyamlEncrypts(bval, output)]

\* After run(): CalledProcessError for a non-zero return code, empty output
\* is an error, block output loses its spaces and ends with a newline
Encrypted(output, completed) ==
    IF completed.returncode # 0 THEN Raises("EYAMLCommandException")
    ELSE IF RStrip(completed.stdout) = <<>> THEN Raises("EYAMLCommandException")
    ELSE IF output = "block"
    THEN Returns(PyStr(Without(RStrip(completed.stdout), {" "}) \o <<"\n">>))
    ELSE Returns(PyStr(RStrip(completed.stdout)))

\* EYAMLProcessor.encrypt_eyaml(value, output)
encrypt_eyaml(value, output, can_run_eyaml, proc) ==
    IF is_eyaml_value(value) THEN Returns(value)
    ELSE IF ~can_run_eyaml THEN Raises("EYAMLCommandException")
    ELSE IF value.k # "str" THEN Raises("TypeError")
    ELSE Encrypted(output, run_encrypt(proc, value.s \o <<"\n">>, output))

\* set_value(yaml_path, encval, mustexist=, value_format=emit_format)
SetEncrypted(h, data, path, encval, output, mustexist) ==
    IF encval.err # "none" THEN Err(h, encval.err)
    ELSE set_value_as(h, data, path, StrRef(encval.val.s), mustexist,
                      IF output = "string" THEN "DEFAULT" ELSE "FOLDED")

\* EYAMLProcessor.set_eyaml_value(yaml_path, value, output=, mustexist=)
set_eyaml_value(h, data, path, value, output, mustexist, can_run_eyaml, proc) ==
    SetEncrypted(h, data, path, encrypt_eyaml(value, output, can_run_eyaml, proc),
                 output, mustexist)

-----------------------------------------------------------------------------
(* Encrypting and decrypting with the EYAMLProcessor *)

\* The values handed to encrypt_eyaml and set_eyaml_value
CryptValues ==
    {PyStr(<<"p", "t">>),
     PyStr(<<"p", " ", "t">>),
     PyStr(<<"p", "t", " ">>),
     PyStr(<<"p", "t", "\n">>),
     PyStr(<<>>),
     PyStr(<<"E", "N", "C", "[", "p", "]">>)}

CryptPaths ==
    {<<KeySeg(<<"a", "l">>), AnchorSeg(<<"s", "i">>)>>,
     <<KeySeg(<<"d", "e">>), KeySeg(<<"n", "v">>)>>,
     <<KeySeg(<<"k", "z">>)>>}

\* What the eyaml command may do: fail or succeed, write nothing or work
CryptProcs == [status : {0, 1}, writes : {"nothing", "crypt"}]

InitCrypt ==
    /\ heap = DocEyaml.h /\ root = DocEyaml.r
    /\ args \in [value : CryptValues, output : {"string", "block"},
                 path : CryptPaths, mustexist : BOOLEAN,
                 can_run_eyaml : BOOLEAN, proc : CryptProcs]
    /\ pc = "start"
    /\ res = <<>>

\* encval = encrypt_eyaml(value, output)
Encrypt ==
    /\ pc = "start"
    /\ res' = <<encrypt_eyaml(args.value, args.output, args.can_run_eyaml, args.proc)>>
    /\ pc' = "encrypted"
    /\ UNCHANGED <<heap, root, args>>

\* decrypt_eyaml(encval)
DecryptBack ==
    /\ pc = "encrypted"
    /\ res[1].err = "none"
    /\ res' = Append(res, decrypt_eyaml(res[1].val, args.can_run_eyaml, args.proc))
    /\ pc' = "roundtrip"
    /\ UNCHANGED <<heap, root, args>>

\* set_eyaml_value(path, value, output=..., mustexist=...)
SetEyamlValue ==
    /\ pc = "start"
    /\ Returned("set_eyaml_value", args.mustexist,
                set_eyaml_value(heap, root, args.path, args.value, args.output,
                                args.mustexist, args.can_run_eyaml, args.proc))
    /\ pc' = "eset"
    /\ UNCHANGED <<root, args>>

\* What a node is recognised as and decrypts to
Reading(value, can_run_eyaml, proc) ==
    [enc |-> is_eyaml_value(value), dec |-> decrypt_eyaml(value, can_run_eyaml, proc)]

ReadBack(r) ==
    res' = Append(res,
        [call |-> "get_nodes", err |-> r.err,
         out |-> [i \in 1..Len(r.out) |->
                     Reading(Obj(r.h, r.out[i].node), args.can_run_eyaml, args.proc)]])

\* for node in get_nodes(path, mustexist=True): is_eyaml_value(node.node),
\* decrypt_eyaml(node.node)
GetBack ==
    /\ pc = "eset"
    /\ ReadBack(get_nodes(heap, root, args.path, TRUE, NoRef))
    /\ pc' = "egot"
    /\ UNCHANGED <<heap, root, args>>

NextCrypt == Encrypt \/ DecryptBack \/ SetEyamlValue \/ GetBack

SpecCrypt == InitCrypt /\ [][NextCrypt]_vars

\* The eyaml command runs, succeeds and holds the matching keys
Working == args.can_run_eyaml /\ args.proc = [status |-> 0, writes |-> "crypt"]

\* C11: with a command whose decrypt inverts its encrypt, for every
\* plaintext V and both output modes decrypt_eyaml(encrypt_eyaml(V, mode))
\* is V, and after set_eyaml_value(P, V, output=mode) every node at P is
\* recognised as encrypted and decrypts to V.
C11_RoundTrip ==
    Working =>
        /\ pc = "roundtrip" =>
              res[2].err = "none" /\ res[2].val.s = args.value.s
        /\ (pc = "egot" /\ res[1].err = "none") =>
              /\ res[2].err = "none"
              /\ Len(res[2].out) >= 1
              /\ \A i \in 1..Len(res[2].out) :
                    /\ res[2].out[i].enc
                    /\ res[2].out[i].dec.err = "none"
                    /\ res[2].out[i].dec.val.s = args.value.s

\* C11 (the divergence is reached): the plaintext "pt " came back as "pt"
C11_SpaceLost ==
    /\ Working
    /\ pc = "roundtrip"
    /\ args.value.s = <<"p", "t", " ">>
    /\ res[2] = Returns(PyStr(<<"p", "t">>))

-----------------------------------------------------------------------------
(* eyamlprocessor.py: get_eyaml_executable and _can_run_eyaml *)

\* os.sep
sep == "/"

\* The directories of the search path
SearchPath == <<<<"/", "b">>>>

\* The files the calls may meet: two absolute paths, one of them in a
\* directory of the search path, and the file named None of the working
\* directory
FsPaths ==
    {<<"/", "b", "/", "e", "y">>,
     <<"/", "x", "/", "e", "y">>,
     <<"N", "o", "n", "e">>}

FileModes == {"absent", "plain", "exec"}

\* os.access(path, X_OK)
access(fs, path) == path \in DOMAIN fs /\ fs[path] = "exec"

RECURSIVE WhichIn(_, _, _)
\* shutil.which(cmd) for a cmd with no directory part: the first directory
\* of the search path holding an executable file of that name, else None
WhichIn(fs, cmd, i) ==
    IF i > Len(SearchPath) THEN NoneObj
    ELSE IF access(fs, SearchPath[i] \o <<sep>> \o cmd)
         THEN PyStr(SearchPath[i] \o <<sep>> \o cmd)
         ELSE WhichIn(fs, cmd, i + 1)

which(fs, cmd) == WhichIn(fs, cmd, 1)

\* str(which(binary))
StrOfWhich(found) == IF found.k = "none" THEN <<"N", "o", "n", "e">> ELSE found.s

\* if access(binary, X_OK): return binary; return None
Executable(fs, binary) ==
    IF access(fs, binary) THEN PyStr(binary) ELSE NoneObj

\* EYAMLProcessor.get_eyaml_executable(binary)
get_eyaml_executable(fs, binary) ==
    IF binary.k = "none" \/ binary.s = <<>> THEN NoneObj
    ELSE IF \A i \in 1..Len(binary.s) : binary.s[i] # sep
         THEN IF StrOfWhich(which(fs, binary.s)) = <<>> THEN NoneObj
              ELSE Executable(fs, StrOfWhich(which(fs, binary.s)))
         ELSE Executable(fs, binary.s)

\* EYAMLProcessor._can_run_eyaml(): the result and the new self.eyaml
can_run_eyaml(fs, eyaml) ==
    IF get_eyaml_executable(fs, eyaml).k = "none"
    THEN [ret |-> FALSE, eyaml |-> eyaml]
    ELSE [ret |-> TRUE, eyaml |-> get_eyaml_executable(fs, eyaml)]

\* The names asked for
Binaries ==
    {NoneObj,
     PyStr(<<>>),
     PyStr(<<"e", "y">>),
     PyStr(<<"z", "z">>),
     PyStr(<<"/", "b", "/", "e", "y">>),
     PyStr(<<"/", "x", "/", "e", "y">>),
     PyStr(<<"/", "x", "/", "n", "o">>)}

InitExe ==
    /\ heap = DocEyaml.h /\ root = DocEyaml.r
    /\ args \in [binary : Binaries, fs : [FsPaths -> FileModes]]
    /\ pc = "start"
    /\ res = <<>>

\* EYAMLProcessor.get_eyaml_executable(binary)
GetExecutable ==
    /\ pc = "start"
    /\ res' = <<get_eyaml_executable(args.fs, args.binary)>>
    /\ pc' = "located"
    /\ UNCHANGED <<heap, root, args>>

\* EYAMLProcessor(log, data, eyaml=binary)._can_run_eyaml()
CanRun ==
    /\ pc = "start"
    /\ res' = <<can_run_eyaml(args.fs, args.binary)>>
    /\ pc' = "asked"
    /\ UNCHANGED <<heap, root, args>>

NextExe == GetExecutable \/ CanRun

SpecExe == InitExe /\ [][NextExe]_vars

\* The name has no directory part and no directory of the search path
\* holds an executable file of that name
NotOnSearchPath ==
    /\ args.binary.k = "str" /\ args.binary.s # <<>>
    /\ \A i \in 1..Len(args.binary.s) : args.binary.s[i] # sep
    /\ which(args.fs, args.binary.s).k = "none"

\* C12: get_eyaml_executable returns None for an absent or empty name, for
\* an absolute path that does not exist, for a file that exists but is not
\* executable and for a bare name that is not found on the search path; it
\* returns a path only when that file is confirmed executable.
C12_NoneUnlessExecutable ==
    pc = "located" =>
        /\ (args.binary.k = "none" \/ args.binary.s = <<>>) => res[1].k = "none"
        /\ (args.binary.k = "str" /\ ~access(args.fs, args.binary.s)
              /\ \E i \in 1..Len(args.binary.s) : args.binary.s[i] = sep)
              => res[1].k = "none"
        /\ NotOnSearchPath => res[1].k = "none"
        /\ res[1].k = "str" => access(args.fs, res[1].s)

\* C12 (the divergence is reached): a bare name that is on no directory of
\* the search path is answered with the path None
C12_NoneFileReturned ==
    /\ pc = "located"
    /\ NotOnSearchPath
    /\ res[1] = PyStr(<<"N", "o", "n", "e">>)

-----------------------------------------------------------------------------
(* Values that are not encrypted *)

\* The text without its spaces and line feeds
Squeezed(t) == SelectSeq(t, LAMBDA ch : ch \notin {" ", "\n"})

\* Absent, not text, or text whose first characters, spaces and line feeds
\* aside, are not ENC[
NotEncrypted(value) ==
    \/ value.k # "str"
    \/ Len(Squeezed(value.s)) < 4
    \/ SubSeq(Squeezed(value.s), 1, 4) # <<"E", "N", "C", "[">>

\* C13: is_eyaml_value is false for an absent value, for a value that is
\* not text and for text that does not start with ENC[ once spaces and line
\* feeds are removed; for these values decrypt_eyaml returns the value
\* unchanged whether or not the eyaml command can be run and whatever that
\* command would do.
C13_PlainUnchanged ==
    NotEncrypted(args.value) =>
        /\ ~is_eyaml_value(args.value)
        /\ pc = "decrypted" => res[1] = Returns(args.value)

\* C13 (the case is reached): a plain text went through decrypt_eyaml with
\* no eyaml command to run
C13_NoBinaryReached ==
    /\ pc = "decrypted"
    /\ ~args.can_run_eyaml
    /\ args.value = PyStr(<<"x", "x">>)
    /\ res[1] = Returns(args.value)

-----------------------------------------------------------------------------
(* commands/yaml_set.py: the value-set command.  main() is followed step   *)
(* by step; res is the world the run acts on: the target file, its .bak    *)
(* file (before: as the run found it), the log, the exit code (-1 while    *)
(* the run goes on), the old values of the matched nodes, how the dump     *)
(* ended, the eyaml binaries that were run.                                *)

\* li: [{nm: xx}, {nm: yy}]
\* pt: xx
\* se: ENC[qu~]
DocSet ==
    [r |-> 1,
     h |-> <<
         YMap(<<<<2, 3>>, <<10, 11>>, <<12, 13>>>>, <<>>, <<>>), \* 1
         PyStr(<<"l", "i">>),                                    \* 2
         YSeq(<<<<0, 4>>, <<0, 7>>>>, <<>>),                     \* 3
         YMap(<<<<5, 6>>>>, <<>>, <<>>),                         \* 4
         PyStr(<<"n", "m">>),                                    \* 5
         PyStr(<<"x", "x">>),                                    \* 6
         YMap(<<<<8, 9>>>>, <<>>, <<>>),                         \* 7
         PyStr(<<"n", "m">>),                                    \* 8
         PyStr(<<"y", "y">>),                                    \* 9
         PyStr(<<"p", "t">>),                                    \* 10
         PyStr(<<"x", "x">>),                                    \* 11
         PyStr(<<"s", "e">>),                                    \* 12
         PyStr(<<"E", "N", "C", "[", "q", "u", "~", "]">>)       \* 13
     >>]


RECURSIVE Dumped(_, _)
\* yaml.dump(yaml_data, file): what the file holds afterwards, as the tree
\* of the document
Dumped(h, i) ==
    IF i = 0 THEN [t |-> "null", s |-> <<>>, c |-> <<>>]
    ELSE IF h[i].k = "str" THEN [t |-> "str", s |-> h[i].s, c |-> <<>>]
    ELSE IF h[i].k = "seq"
    THEN [t |-> "seq", s |-> <<>>,
          c |-> [j \in 1..Len(h[i].ent) |-> Dumped(h, h[i].ent[j][2])]]
    ELSE IF h[i].k = "map"
    THEN [t |-> "map", s |-> <<>>,
          c |-> [j \in 1..Len(h[i].ent) |->
                    [t |-> "entry", s |-> StrOfKey(h, h[i].ent[j][1]),
                     c |-> <<Dumped(h, h[i].ent[j][2])>>]]]
    ELSE [t |-> h[i].k, s |-> TextOfInt(h[i].n), c |-> <<>>]

\* No such file
Absent == [t |-> "absent", s |-> <<>>, c |-> <<>>]

\* The .bak file an earlier run left
OldBackup == [t |-> "str", s |-> <<"o", "l", "d">>, c |-> <<>>]

\* The target file before the run
Original == Dumped(DocSet.h, DocSet.r)

\* The file is open for writing and the dump has not come to its end
Truncated == [t |-> "truncated", s |-> <<>>, c |-> <<>>]

\* bool(x) of an optional argument
Truthy(x) ==
    \/ x.k = "str" /\ x.s # <<>>
    \/ x.k = "int" /\ x.n # 0
    \/ x.k = "bool"

\* --value, --file, --stdin, --random: argparse lets at most one be given
Inputs ==
    {[value |-> NoneObj, file |-> NoneObj, stdin |-> NoneObj, random |-> NoneObj],
     [value |-> PyStr(<<"x", "x">>), file |-> NoneObj, stdin |-> NoneObj, random |-> NoneObj],
     [value |-> NoneObj, file |-> PyStr(<<"n", "f">>), stdin |-> NoneObj, random |-> NoneObj],
     [value |-> NoneObj, file |-> NoneObj, stdin |-> [Blank EXCEPT !.k = "bool"], random |-> NoneObj],
     [value |-> NoneObj, file |-> NoneObj, stdin |-> NoneObj, random |-> PyInt(0)]}

\* What --file names and what STDIN gives
FileText == <<"n", "w", "\n">>
StdinText == <<"n", "w">>

\* --change
Changes ==
    {PyStr(<<"p", "t">>),
     PyStr(<<"l", "i", ".", "n", "m">>),
     PyStr(<<"s", "e">>),
     PyStr(<<"k", "z">>)}

\* --saveto
SaveTos == {NoneObj, PyStr(<<"p", "t">>)}

\* --check
Checks == {NoneObj, PyStr(<<>>), PyStr(<<"x", "x">>)}

\* --privatekey and --publickey; the file pk is readable, the file nk not
Keys ==
    {[privatekey |-> NoneObj, publickey |-> NoneObj],
     [privatekey |-> PyStr(<<"n", "k">>), publickey |-> NoneObj],
     [privatekey |-> NoneObj, publickey |-> PyStr(<<"p", "k">>)]}

Readable == {<<"p", "k">>}

EyamlDefault == PyStr(<<"e", "y", "a", "m", "l">>)

\* The eyaml commands of the machine: eyaml on the search path, /x/ey
SetFs ==
    {[p \in {<<"/", "b", "/", "e", "y", "a", "m", "l">>, <<"/", "x", "/", "e", "y">>}
         |-> "exec"],
     [p \in {<<"/", "b", "/", "e", "y", "a", "m", "l">>, <<"/", "x", "/", "e", "y">>}
         |-> IF p[2] = "x" THEN "exec" ELSE "absent"]}

\* --eyaml, with the machine it is given on
Tools ==
    {[eyaml |-> EyamlDefault, fs |-> f] : f \in SetFs}
    \cup {[eyaml |-> PyStr(<<"/", "x", "/", "e", "y">>), fs |-> f] : f \in SetFs}

\* processcli(): the parsed command line, with what the run will find
SetArgs ==
    {[change |-> c, value |-> i.value, file |-> i.file, stdin |-> i.stdin,
      random |-> i.random, check |-> k, saveto |-> s, mustexist |-> m,
      backup |-> b, eyamlcrypt |-> e, eyaml |-> t.eyaml, fs |-> t.fs,
      privatekey |-> y.privatekey, publickey |-> y.publickey,
      proc |-> [status |-> 0, writes |-> "crypt"]] :
        c \in Changes, i \in Inputs, k \in Checks, s \in SaveTos,
        m \in BOOLEAN, b \in BOOLEAN, e \in BOOLEAN, t \in Tools, y \in Keys}

InitSet ==
    /\ heap = <<>> /\ root = 0
    /\ args \in SetArgs
    /\ pc = "start"
    /\ \E bak \in {Absent, OldBackup} :
           res = [exit |-> -1, log |-> <<>>, file |-> Original, bak |-> bak,
                  before |-> bak, opened |-> FALSE, new_value |-> <<>>,
                  eyaml |-> NoneObj, ran |-> {}, nodes |-> <<>>, old |-> <<>>,
                  dump |-> "none"]

\* The run ends with the target file already opened for writing
critical_Opened(message, exit_code) ==
    /\ res' = [res EXCEPT !.log = Append(@, message), !.exit = exit_code,
                          !.file = Truncated]
    /\ pc' = "exit"

\* ConsolePrinter.critical(message, exit_code): the message is logged and
\* the run ends with that code
critical(message, exit_code) ==
    /\ res' = [res EXCEPT !.log = Append(@, message), !.exit = exit_code]
    /\ pc' = "exit"

\* isfile(path) and access(path, R_OK)
readable(path) == path.s \in Readable

\* The problems validateargs logs
Problems(a) ==
    (IF ~(Truthy(a.value) \/ Truthy(a.file) \/ Truthy(a.stdin) \/ Truthy(a.random))
     THEN <<"Exactly one of the following must be set">> ELSE <<>>)
    \o (IF Truthy(a.saveto) /\ a.saveto = a.change
        THEN <<"Impossible to save the old value to the same YAML Path">> ELSE <<>>)
    \o (IF Truthy(a.privatekey) /\ ~readable(a.privatekey)
        THEN <<"EYAML private key is not a readable file">> ELSE <<>>)
    \o (IF Truthy(a.publickey) /\ ~readable(a.publickey)
        THEN <<"EYAML public key is not a readable file">> ELSE <<>>)

\* validateargs leaving at the first problem it finds
validateargs_FirstOnly(a) ==
    [log |-> IF Problems(a) = <<>> THEN <<>> ELSE <<Problems(a)[1]>>,
     has_errors |-> Problems(a) # <<>>]

\* validateargs(args, log): what it logs, and whether it ends the run
validateargs(a) == [log |-> Problems(a), has_errors |-> Problems(a) # <<>>]

Validated(v) ==
    /\ res' = [res EXCEPT !.log = @ \o v.log,
                          !.exit = IF v.has_errors THEN 1 ELSE @]
    /\ pc' = IF v.has_errors THEN "exit" ELSE "validated"

\* main: validateargs(args, log)
Validate ==
    /\ pc = "start"
    /\ Validated(validateargs(args))
    /\ UNCHANGED <<heap, root, args>>

\* main: the new value, from --value, STDIN, --file or --random
new_value(a) ==
    IF Truthy(a.value) THEN a.value.s
    ELSE IF Truthy(a.stdin) THEN StdinText
    ELSE IF Truthy(a.file) THEN RStrip(FileText)
    ELSE [j \in 1..a.random.n |-> "A"]

\* kwargs.pop(key, default)
pop(kwargs, key, default) ==
    IF key \in DOMAIN kwargs THEN kwargs[key] ELSE default

\* EYAMLProcessor.__init__(logger, data, **kwargs): self.eyaml
EYAMLProcessor(kwargs) == pop(kwargs, "eyaml", EyamlDefault)

\* main: get_yaml_data(yaml, log, args.yaml_file), then
\* EYAMLProcessor(log, yaml_data, binary=args.eyaml, publickey=..., privatekey=...)
Load ==
    /\ pc = "validated"
    /\ \E loaded \in BOOLEAN :
        IF loaded
        THEN /\ heap' = DocSet.h /\ root' = DocSet.r
             /\ res' = [res EXCEPT !.opened = TRUE, !.new_value = new_value(args),
                           !.eyaml = EYAMLProcessor([binary |-> args.eyaml,
                                                     publickey |-> args.publickey,
                                                     privatekey |-> args.privatekey])]
             /\ pc' = "loaded"
        ELSE /\ res' = [res EXCEPT !.opened = TRUE, !.exit = 1]
             /\ pc' = "exit"
             /\ UNCHANGED <<heap, root>>
    /\ UNCHANGED args

\* processor.get_nodes(change_path, mustexist=, default_value=), the path
\* given as text
nodes_of(h, data, parsed, mustexist, default_value) ==
    IF parsed.err # "none" THEN Err(h, parsed.err)
    ELSE get_nodes(h, data, parsed.segments, mustexist, default_value)

NodesCollected(r) ==
    /\ heap' = r.h
    /\ IF r.err # "none" THEN critical("YAMLPathException", 1)
       ELSE /\ res' = [res EXCEPT !.nodes = r.out,
                       !.old = [i \in 1..Len(r.out) |-> Obj(r.h, r.out[i].node)]]
            /\ pc' = "collected"

\* main: change_node_coordinates, from processor.get_nodes(change_path,
\* mustexist=(args.mustexist or args.saveto), default_value=...)
GetChangeNodes ==
    /\ pc = "loaded"
    /\ NodesCollected(nodes_of(heap, root, YAMLPath(args.change.s),
                          args.mustexist \/ Truthy(args.saveto),
                          IF res.new_value # <<>> THEN StrRef(<<>>)
                          ELSE StrRef(<<" ">>)))
    /\ UNCHANGED <<root, args>>

\* Only one of --publickey and --privatekey is given
HalfKeyed(a) ==
    \/ Truthy(a.publickey) /\ ~Truthy(a.privatekey)
    \/ Truthy(a.privatekey) /\ ~Truthy(a.publickey)

\* args.check == check_value
CheckMatches(check, check_value) == check_value.k = "str" /\ check_value.s = check.s

\* The old value of one node against --check: the exit code it ends the
\* run with, -1 when it matches
checked(a, node, runner) ==
    IF is_eyaml_value(node)
    THEN IF HalfKeyed(a) THEN 1
         ELSE IF decrypt_eyaml(node, runner.ret, a.proc).err # "none" THEN 1
         ELSE IF ~CheckMatches(a.check, decrypt_eyaml(node, runner.ret, a.proc).val)
         THEN 20 ELSE -1
    ELSE IF ~CheckMatches(a.check, node) THEN 20 ELSE -1

RECURSIVE check_each(_, _, _, _, _)
\* for node_coordinate in change_node_coordinates: ... of the check
check_each(a, h, nodes, i, runner) ==
    IF i > Len(nodes) THEN -1
    ELSE IF checked(a, Obj(h, nodes[i].node), runner) # -1
    THEN checked(a, Obj(h, nodes[i].node), runner)
    ELSE check_each(a, h, nodes, i + 1, runner)

\* if args.check: ...
check_nodes(a, h, nodes, runner) ==
    IF Truthy(a.check) THEN check_each(a, h, nodes, 1, runner) ELSE -1

\* The binaries that decrypting the matched nodes runs
Decrypting(a, h, nodes, runner) ==
    IF Truthy(a.check) /\ ~HalfKeyed(a) /\ runner.ret
       /\ \E i \in 1..Len(nodes) : is_eyaml_value(Obj(h, nodes[i].node))
    THEN {runner.eyaml} ELSE {}

Checking(code) ==
    IF code = -1 THEN pc' = "checked" /\ UNCHANGED res
    ELSE critical("check", code)

\* main: the --check of the old values
Check ==
    /\ pc = "collected"
    /\ Checking(check_nodes(args, heap, res.nodes, can_run_eyaml(args.fs, res.eyaml)))
    /\ UNCHANGED <<heap, root, args>>

\* The --saveto of the first matched node, whatever the number of nodes
SaveOld_First(h, data, a, nodes) ==
    set_value_as(h, data, YAMLPath(a.saveto.s).segments,
                 StrRef(Obj(h, nodes[1].node).s), FALSE, "DEFAULT")

\* if args.saveto: more than one matched node is an error; else
\* processor.set_value(saveto_path, clone_node(old_value), value_format=old_format)
SaveOld(h, data, a, nodes) ==
    IF Len(nodes) > 1 THEN Err(h, "more than one matched value")
    ELSE set_value_as(h, data, YAMLPath(a.saveto.s).segments,
                      StrRef(Obj(h, nodes[1].node).s), FALSE, "DEFAULT")

OldValueSaved(r) ==
    /\ heap' = r.h
    /\ IF r.err # "none" THEN critical("saveto", 1)
       ELSE pc' = "saved" /\ UNCHANGED res

\* main: the --saveto of the old value
SaveTo ==
    /\ pc = "checked"
    /\ IF Truthy(args.saveto) THEN OldValueSaved(SaveOld(heap, root, args, res.nodes))
       ELSE pc' = "saved" /\ UNCHANGED <<heap, res>>
    /\ UNCHANGED <<root, args>>

\* processor.set_eyaml_value(change_path, new_value, output=, mustexist=False)
\* or processor.set_value(change_path, new_value, value_format=args.format)
set_new(h, data, a, text, runner) ==
    IF a.eyamlcrypt
    THEN set_eyaml_value(h, data, YAMLPath(a.change.s).segments, PyStr(text),
                         "string", FALSE, runner.ret, a.proc)
    ELSE set_value_as(h, data, YAMLPath(a.change.s).segments, StrRef(text),
                      FALSE, "DEFAULT")

\* The binaries that encrypting the new value runs
Encrypting(a, text, runner) ==
    IF a.eyamlcrypt /\ runner.ret /\ ~is_eyaml_value(PyStr(text))
    THEN {runner.eyaml} ELSE {}

NewValueSet(r, ran) ==
    /\ heap' = r.h
    /\ IF r.err = "EYAMLCommandException"
       THEN /\ res' = [res EXCEPT !.log = Append(@, "EYAMLCommandException"),
                                  !.exit = 2, !.ran = @ \cup ran]
            /\ pc' = "exit"
       ELSE IF r.err # "none"
       THEN /\ res' = [res EXCEPT !.exit = 1, !.ran = @ \cup ran]
            /\ pc' = "exit"
       ELSE /\ res' = [res EXCEPT !.ran = @ \cup ran]
            /\ pc' = "changed"

\* main: the new value is set at the change path
SetNew ==
    /\ pc = "saved"
    /\ NewValueSet(set_new(heap, root, args, res.new_value,
                       can_run_eyaml(args.fs, res.eyaml)),
               Decrypting(args, heap, res.nodes, can_run_eyaml(args.fs, res.eyaml))
               \cup Encrypting(args, res.new_value, can_run_eyaml(args.fs, res.eyaml)))
    /\ UNCHANGED <<root, args>>

\* The backup step leaving a .bak file that is already there
backup_KeepOld(backup, file, bak) ==
    IF backup /\ bak = Absent THEN file ELSE bak

\* if args.backup: remove(backup_file) if it exists;
\* copy2(args.yaml_file, backup_file): the .bak file afterwards
backup(backup_arg, file, bak) ==
    IF backup_arg THEN file ELSE bak

\* main: the backup of the target file
Backup ==
    /\ pc = "changed"
    /\ res' = [res EXCEPT !.bak = backup(args.backup, res.file, res.bak)]
    /\ pc' = "backed"
    /\ UNCHANGED <<heap, root, args>>

\* rollback_changes leaving the .bak file of the run
rollback_changes_KeepBackup(backup_arg, tmp, bak) ==
    [file |-> tmp, bak |-> bak]

\* rollback_changes(outhnd, tmphnd, args, backup_file): the target file and
\* the .bak file afterwards
rollback_changes(backup_arg, tmp, bak) ==
    [file |-> tmp, bak |-> IF backup_arg THEN Absent ELSE bak]

\* How yaml.dump ends
DumpOutcomes == {"written", "UnicodeEncodeError", "AssertionError"}

RolledBack(r, error) ==
    res' = [res EXCEPT !.file = r.file, !.bak = r.bak,
                       !.log = Append(@, error), !.exit = 3, !.dump = error]

\* main: the file is copied aside, opened for writing and dumped to; a
\* failing dump is rolled back
Write ==
    /\ pc = "backed"
    /\ \E outcome \in DumpOutcomes :
        IF outcome = "written"
        THEN res' = [res EXCEPT !.file = Dumped(heap, root), !.exit = 0,
                                !.dump = outcome]
        ELSE RolledBack(rollback_changes(args.backup, res.file, res.bak), outcome)
    /\ pc' = "exit"
    /\ UNCHANGED <<heap, root, args>>

NextSet ==
    \/ Validate \/ Load \/ GetChangeNodes \/ Check \/ SaveTo \/ SetNew
    \/ Backup \/ Write

SpecSet == InitSet /\ [][NextSet]_vars

-----------------------------------------------------------------------------
(* Properties of the value-set command *)

\* The old value of a matched node, decrypted by the run when it is
\* encrypted, is not the --check value
Differs(node) ==
    IF is_eyaml_value(node)
    THEN /\ ~HalfKeyed(args)
         /\ decrypt_eyaml(node, can_run_eyaml(args.fs, res.eyaml).ret, args.proc).err = "none"
         /\ decrypt_eyaml(node, can_run_eyaml(args.fs, res.eyaml).ret, args.proc).val.s
                # args.check.s
    ELSE ~(node.k = "str" /\ node.s = args.check.s)

\* C14: a run with --check VALUE in which some node matched by --change
\* holds a value (decrypted first when encrypted) that is not VALUE exits
\* with code 20, and the target file and the .bak file are as before.
C14_MismatchExits20 ==
    (/\ pc = "exit"
     /\ args.check.k = "str"
     /\ \E i \in 1..Len(res.old) : Differs(res.old[i]))
    => /\ res.exit = 20
       /\ res.file = Original
       /\ res.bak = res.before

\* C14 (the divergence is reached): --check "" against the old value xx,
\* and the file was rewritten with the new value
C14_EmptyCheckWritten ==
    /\ pc = "exit"
    /\ args.check = PyStr(<<>>)
    /\ args.change.s = <<"p", "t">>
    /\ res.old = <<PyStr(<<"x", "x">>)>>
    /\ res.exit = 0
    /\ res.file # Original

\* C15: when the dump fails, the run ends with exit code 3, the target file
\* holds what it held before the run, and with --backup there is no .bak
\* file any more.
C15_FailedDumpRolledBack ==
    res.dump \in {"UnicodeEncodeError", "AssertionError"} =>
        /\ pc = "exit" /\ res.exit = 3
        /\ res.file = Original
        /\ args.backup => res.bak = Absent

\* C15 (the case is reached): a dump failed after the target was changed in
\* memory, with --backup
C15_RollbackReached ==
    /\ res.dump = "UnicodeEncodeError"
    /\ args.backup
    /\ Dumped(heap, root) # Original
    /\ res.file = Original /\ res.bak = Absent

C17_NoChangeNoBackup ==
    (pc = "exit" /\ args.backup /\ res.file = Original) => res.bak = res.before

\* C17 (the divergence is reached): the new value is the old one, the file
\* is as before, and a .bak file was created
C17_BackupOfNoChange ==
    /\ pc = "exit" /\ res.exit = 0 /\ args.backup
    /\ args.change.s = <<"p", "t">> /\ args.value.s = <<"x", "x">>
    /\ res.file = Original
    /\ res.before = Absent /\ res.bak = Original

Logged(message) == \E i \in 1..Len(res.log) : res.log[i] = message

\* C18: a command line with none of --value, --file, --stdin and --random
\* ends with exit code 1 before the target file is opened, and every
\* problem of the command line is logged, not only the first.
C18_NoInputExitsFirst ==
    (/\ args.value.k = "none" /\ args.file.k = "none"
     /\ args.stdin.k = "none" /\ args.random.k = "none"
     /\ pc # "start")
    => /\ pc = "exit" /\ res.exit = 1
       /\ ~res.opened /\ res.file = Original /\ res.bak = res.before
       /\ Logged("Exactly one of the following must be set")
       /\ (args.saveto.k = "str" /\ args.saveto = args.change)
             => Logged("Impossible to save the old value to the same YAML Path")
       /\ (args.privatekey.k = "str" /\ args.privatekey.s \notin Readable)
             => Logged("EYAML private key is not a readable file")
       /\ (args.publickey.k = "str" /\ args.publickey.s \notin Readable)
             => Logged("EYAML public key is not a readable file")

\* C18 (the case is reached): three problems at once, all logged
C18_ThreeProblemsReached ==
    /\ pc = "exit" /\ res.exit = 1
    /\ args.value.k = "none" /\ args.file.k = "none"
    /\ args.stdin.k = "none" /\ args.random.k = "none"
    /\ Len(res.log) = 3

C20_GivenBinaryRuns ==
    res.eyaml.k # "none" =>
        /\ res.eyaml = args.eyaml
        /\ \A b \in res.ran : b = get_eyaml_executable(args.fs, args.eyaml)

\* C20 (the divergence is reached): --eyaml /x/ey was given and the eyaml
\* of the search path was run
C20_OtherBinaryRan ==
    /\ args.eyaml = PyStr(<<"/", "x", "/", "e", "y">>)
    /\ res.ran = {PyStr(<<"/", "b", "/", "e", "y", "a", "m", "l">>)}

-----------------------------------------------------------------------------
(* func.py: make_new_node over source nodes, values and formats *)

\* &an ol, &ai 300, a scalar string with no anchor name, a plain str and
\* &af 1.5: the nodes a new node is made for
SourceNodes ==
    <<YStr(<<"o", "l">>, <<"a", "n">>),
      YInt(300, <<"a", "i">>),
      YStr(<<"p", "l">>, <<>>),
      PyStr(<<"p", "y">>),
      YFloat(1500, <<"a", "f">>)>>

NodeValues ==
    {StrRef(<<"3", ".", "1", "0">>),
     StrRef(<<"-", "3", ".", "1", "0">>),
     StrRef(<<".", "5">>),
     StrRef(<<"5", ".">>),
     StrRef(<<"7">>),
     StrRef(<<"3", "1">>),
     StrRef(<<"3", "1", "0">>),
     StrRef(<<"3", ".", "1", ".", "0">>),
     StrRef(<<"t", "r", "u", "e">>),
     StrRef(<<"n", "o">>),
     StrRef(<<"x", "x">>),
     IntRef(7)}

\* YAMLValueFormats
Formats == StringFormats \cup {"DEFAULT", "BOOLEAN", "FLOAT", "INT"}

InitNode ==
    /\ heap = SourceNodes /\ root = 0
    /\ args \in [source : 1..Len(SourceNodes), value : NodeValues,
                 value_format : Formats]
    /\ pc = "start"
    /\ res = <<>>

\* make_new_node(source_node, value, value_format, None)
MakeNewNode ==
    /\ pc = "start"
    /\ res' = <<make_new_node(heap, args.source, args.value, args.value_format)>>
    /\ pc' = "made"
    /\ UNCHANGED <<heap, root, args>>

NextNode == MakeNewNode

SpecNode == InitNode /\ [][NextNode]_vars

\* C21: for every source node with an anchor name and every format for
\* which make_new_node returns a node, the node returned carries the anchor
\* name of the source node.
C21_AnchorCarried ==
    (/\ pc = "made"
     /\ heap[args.source].anchor # <<>>
     /\ res[1].k \in {"str", "int", "float", "bool"})
    => res[1].anchor = heap[args.source].anchor

\* C21 (the case is reached): a float made for the anchored string
C21_FloatAnchored ==
    /\ pc = "made"
    /\ args.source = 1 /\ args.value_format = "FLOAT"
    /\ res[1].k = "float" /\ res[1].anchor = <<"a", "n">>

\* The text of the value, and the number of digits after its last point
ValueText == IF args.value.kt = "int" THEN TextOfInt(args.value.n) ELSE args.value.s

LastPoint(t) ==
    IF \A i \in 1..Len(t) : t[i] # "." THEN 0
    ELSE CHOOSE i \in 1..Len(t) : t[i] = "." /\ \A j \in (i + 1)..Len(t) : t[j] # "."

DigitsAfterPoint(t) == IF LastPoint(t) = 0 THEN 0 ELSE Len(t) - LastPoint(t)

\* C22: for a value text that parses as a floating-point number, FLOAT
\* gives a node whose width is the length of the text and whose precision is
\* the position of the last decimal point (0 when there is none), so that
\* width - precision - 1, the digits rendered after the point, is the
\* number of digits after the point in the text, none when the text has no
\* point.
C22_FloatDigitsKept ==
    (pc = "made" /\ args.value_format = "FLOAT" /\ res[1].k = "float")
    => /\ res[1].width = Len(ValueText)
       /\ res[1].prec = (IF LastPoint(ValueText) = 0 THEN 0
                         ELSE LastPoint(ValueText) - 1)
       /\ res[1].width - res[1].prec - 1 = DigitsAfterPoint(ValueText)

\* C22 (the divergence is reached): the text 31 has no point and gives
\* width 2 and precision 0, one digit after the point
C22_DigitAdded ==
    /\ pc = "made" /\ args.value_format = "FLOAT"
    /\ args.value = StrRef(<<"3", "1">>)
    /\ res[1].k = "float" /\ res[1].width = 2 /\ res[1].prec = 0

-----------------------------------------------------------------------------
(* The handles get_nodes yields *)

\* parent[parentref] is node, or there is no parent
Assignable(h, nc) ==
    \/ nc.parent = 0
    \/ HasItem(h, nc.parent, nc.ref) /\ ItemAt(h, nc.parent, nc.ref) = nc.node

\* C23: every handle (node, parent, parentref) that get_nodes yields, under
\* required or optional semantics and for every segment type, either has no
\* parent or satisfies parent[parentref] is node.
C23_HandlesAssignable ==
    pc \in {"got", "gotopt"} =>
        \A i \in 1..Len(res[1].out) : Assignable(heap, res[1].out[i])

\* C23 (the divergence is reached): the handle of the slice kl[0:1] holds a
\* new list, and its parent holds 301 at that position
C23_SliceHandle ==
    /\ pc = "got"
    /\ args.path = <<KeySeg(<<"k", "l">>), IndexSeg(<<"0", ":", "1">>)>>
    /\ Len(res[1].out) = 1
    /\ IsList(heap, res[1].out[1].node)
    /\ Kind(heap, ItemAt(heap, res[1].out[1].parent, res[1].out[1].ref)) = "int"


-----------------------------------------------------------------------------
(* processor.py: set_value and _update_node over a document whose values   *)
(* are shared by aliases, equalled by other values and inherited through   *)
(* a merge key                                                             *)

\* ka: &an vv
\* kl: [*an, vv, xx]
\* kb: &bs {kc: *an, kd: xx}
\* km: {<<: *bs, ke: vv}
DocFrame ==
    [r |-> 1,
     h |-> <<
         YMap(<<<<2, 3>>, <<4, 5>>, <<8, 9>>, <<13, 14>>>>, <<>>, <<>>), \* 1
         PyStr(<<"k", "a">>),                                            \* 2
         YStr(<<"v", "v">>, <<"a", "n">>),                               \* 3
         PyStr(<<"k", "l">>),                                            \* 4
         YSeq(<<<<0, 3>>, <<0, 6>>, <<0, 7>>>>, <<>>),                   \* 5
         PyStr(<<"v", "v">>),                                            \* 6
         PyStr(<<"x", "x">>),                                            \* 7
         PyStr(<<"k", "b">>),                                            \* 8
         YMap(<<<<10, 3>>, <<11, 12>>>>, <<"b", "s">>, <<>>),            \* 9
         PyStr(<<"k", "c">>),                                            \* 10
         PyStr(<<"k", "d">>),                                            \* 11
         PyStr(<<"x", "x">>),                                            \* 12
         PyStr(<<"k", "m">>),                                            \* 13
         YMap(<<<<15, 16>>>>, <<>>, <<9>>),                              \* 14
         PyStr(<<"k", "e">>),                                            \* 15
         PyStr(<<"v", "v">>)                                             \* 16
     >>]

FrameDocs == {DocFrame, DocAlias}

FramePaths ==
    {<<KeySeg(<<"k", "a">>)>>,
     <<KeySeg(<<"k", "l">>), IndexSeg(<<"0">>)>>,
     <<KeySeg(<<"k", "l">>), IndexSeg(<<"1">>)>>,
     <<KeySeg(<<"k", "l">>), IndexSeg(<<"4">>)>>,
     <<KeySeg(<<"k", "l">>), AnchorSeg(<<"a", "n">>)>>,
     <<KeySeg(<<"k", "l">>), SearchSeg(FALSE, "EQUALS", <<".">>, <<"v", "v">>)>>,
     <<KeySeg(<<"k", "b">>), KeySeg(<<"k", "c">>)>>,
     <<KeySeg(<<"k", "b">>), KeySeg(<<"k", "d">>)>>,
     <<KeySeg(<<"k", "m">>), KeySeg(<<"k", "c">>)>>,
     <<KeySeg(<<"k", "m">>), KeySeg(<<"k", "d">>)>>,
     <<KeySeg(<<"k", "m">>), KeySeg(<<"k", "e">>)>>,
     <<KeySeg(<<"k", "m">>), KeySeg(<<"k", "z">>)>>}

FrameValues == {IntRef(7), StrRef(<<"n", "v">>), StrRef(<<"v", "v">>)}

InitFrame ==
    /\ \E d \in FrameDocs : heap = d.h /\ root = d.r
    /\ args \in [path : FramePaths, value : FrameValues, mustexist : BOOLEAN]
    /\ pc = "start"
    /\ res = <<>>

NextFrame == SetValue

SpecFrame == InitFrame /\ [][NextFrame]_vars

\* The objects of the document before the call that the call targeted: the
\* node of a handle, and what the slot of a handle held
Targets ==
    {res[1].out[i].node : i \in 1..Len(res[1].out)}
    \cup {ItemAt(res[1].pre, res[1].out[i].parent, res[1].out[i].ref) :
             i \in {j \in 1..Len(res[1].out) :
                       /\ res[1].out[j].parent \in 1..Len(res[1].pre)
                       /\ HasItem(res[1].pre, res[1].out[j].parent, res[1].out[j].ref)}}

\* The keys d inherits through its merge key and does not declare
InheritedKeys(h, d) ==
    {KeyRef(h, EffEntries(h, d)[i][1]) :
        i \in (Len(h[d].ent) + 1)..Len(EffEntries(h, d))}

-----------------------------------------------------------------------------
(* processor.py: _get_nodes_by_search with a named attribute over the      *)
(* elements of a sequence                                                  *)

MaxElements == 3

\* What an element of the sequence is: {kc: xx}, {kc: zz}, {kd: xx} or xx
ElementKinds == {"kc-xx", "kc-zz", "kd-xx", "xx"}

\* The objects of one element, the first of them at id base + 1; the
\* element itself is the last
ElementObjs(kind, base) ==
    IF kind = "xx" THEN <<PyStr(<<"x", "x">>)>>
    ELSE <<PyStr(IF kind = "kd-xx" THEN <<"k", "d">> ELSE <<"k", "c">>),
           PyStr(IF kind = "kc-zz" THEN <<"z", "z">> ELSE <<"x", "x">>),
           YMap(<<<<base + 1, base + 2>>>>, <<>>, <<>>)>>

\* The document that is a sequence of elements of these kinds
DocSeq(kinds) ==
    LET F[i \in 0..Len(kinds)] ==
            IF i = 0 THEN [objs |-> <<>>, ent |-> <<>>]
            ELSE LET objs == F[i - 1].objs \o ElementObjs(kinds[i], 1 + Len(F[i - 1].objs))
                 IN  [objs |-> objs, ent |-> Append(F[i - 1].ent, <<0, 1 + Len(objs)>>)]
    IN  [r |-> 1, h |-> <<YSeq(F[Len(kinds)].ent, <<>>)>> \o F[Len(kinds)].objs]

SeqDocs == {DocSeq(kinds) : kinds \in UNION {[1..n -> ElementKinds] : n \in 1..MaxElements}}

\* [kc=xx] and [kc!=xx]
SeqPaths == {<<SearchSeg(inv, "EQUALS", <<"k", "c">>, <<"x", "x">>)>> : inv \in BOOLEAN}

InitSeq ==
    /\ \E d \in SeqDocs : heap = d.h /\ root = d.r
    /\ args \in [path : SeqPaths, value : {IntRef(7)}, mustexist : {TRUE}]
    /\ pc = "start"
    /\ res = <<>>

NextSeq == GetNodes

SpecSeq == InitSeq /\ [][NextSeq]_vars

\* The match result of the search terms on the element alone: that of its
\* child of that name, false when it is no mapping or has no such child
MatchOf(h, ele, terms) ==
    /\ IsDict(h, ele)
    /\ MapHas(h, ele, StrRef(terms.attr))
    /\ search_matches(terms.method, terms.term, h, MapGet(h, ele, StrRef(terms.attr))).matches

\* The elements to yield: those whose match result differs from the
\* inversion flag
Deciding(h, data, terms) ==
    SelectSeq([i \in 1..ListLen(h, data) |-> ListGet(h, data, i - 1)],
              LAMBDA ele : MatchOf(h, ele, terms) # terms.inv)

\* C25: a SEARCH with a named attribute over a sequence raises no error and
\* yields exactly the elements whose own match result (false for an element
\* that is no mapping or lacks the child) differs from the inversion flag.
C25_ElementAlone ==
    pc = "got" =>
        /\ [i \in 1..Len(res[1].out) |-> res[1].out[i].node]
               = Deciding(heap, root, args.path[1])
        /\ \/ res[1].err = "none"
           \/ res[1].err = "NotFound" /\ Deciding(heap, root, args.path[1]) = <<>>

\* C25 (the divergence is reached): [kc=xx] over [{kc: xx}, xx] yielded the
\* second element, which is no mapping, on the match of the first
C25_EarlierMatchKept ==
    /\ pc = "got" /\ res[1].err = "none"
    /\ ~args.path[1].inv
    /\ Len(res[1].out) = 2
    /\ Kind(heap, res[1].out[2].node) = "str"

-----------------------------------------------------------------------------
(* processor.py: _get_nodes_by_index over sequences of every length up to  *)
(* MaxElements, for every index and slice up to MaxIndex                   *)

MaxIndex == 4

IndexDocs ==
    {DocSeq(kinds) : kinds \in UNION {[1..n -> {"kc-xx", "xx"}] : n \in 0..MaxElements}}

\* [N] and [min:max]
IndexPaths ==
    {<<IndexSeg(TextOfNat(n))>> : n \in 0..MaxIndex}
    \cup {<<IndexSeg(TextOfNat(lo) \o <<":">> \o TextOfNat(hi))>> :
             lo \in 0..MaxIndex, hi \in 0..MaxIndex}

InitIndex ==
    /\ \E d \in IndexDocs : heap = d.h /\ root = d.r
    /\ args \in [path : IndexPaths, value : {IntRef(7)}, mustexist : {TRUE}]
    /\ pc = "start"
    /\ res = <<>>

\* list(processor._get_required_nodes(processor.data, args.path))
RequiredNodes ==
    /\ pc = "start"
    /\ Returned("_get_required_nodes", TRUE,
                Walk(Ctx(root, args.path, NoRef, "req", FALSE), heap, root, 1, 0, NoRef))
    /\ pc' = "required"
    /\ UNCHANGED <<root, args>>

NextIndex == RequiredNodes

SpecIndex == InitIndex /\ [][NextIndex]_vars

\* The bounds of the segment's slice, and its index
MinOf(seg) == IntParsed(SubSeq(seg.a, 1, ColonPos(seg.a) - 1))
MaxOf(seg) == IntParsed(SubSeq(seg.a, ColonPos(seg.a) + 1, Len(seg.a)))

\* The elements of the list object node
ElementsOf(h, node) == [i \in 1..Len(h[node].ent) |-> h[node].ent[i][2]]

\* data[lo:hi] for 0 <= lo and 0 <= hi: the elements at lo, ..., hi - 1 that
\* data has
SubSequence(h, data, lo, hi) ==
    [i \in 1..(IF Min(hi, ListLen(h, data)) > lo
               THEN Min(hi, ListLen(h, data)) - lo ELSE 0) |->
        h[data].ent[lo + i][2]]

\* C26: against a sequence, [min:max] yields one handle: the one-element
\* list [data[min]] when min = max is a position of the sequence, else the
\* sub-sequence data[min:max]; [N] yields the element at N when N is less
\* than the length, and nothing, without an error, when it is not.
C26_IndexYields ==
    pc = "required" =>
        /\ res[1].err = "none"
        /\ IF ColonPos(args.path[1].a) # 0
           THEN /\ Len(res[1].out) = 1
                /\ IsList(heap, res[1].out[1].node)
                /\ ElementsOf(heap, res[1].out[1].node) =
                       IF /\ MinOf(args.path[1]) = MaxOf(args.path[1])
                          /\ MinOf(args.path[1]) < ListLen(heap, root)
                       THEN <<heap[root].ent[MinOf(args.path[1]) + 1][2]>>
                       ELSE SubSequence(heap, root, MinOf(args.path[1]),
                                        MaxOf(args.path[1]))
           ELSE IF IntParsed(args.path[1].a) < ListLen(heap, root)
           THEN res[1].out =
                    <<NodeCoords(heap[root].ent[IntParsed(args.path[1].a) + 1][2],
                                 root, IntRef(IntParsed(args.path[1].a)))>>
           ELSE res[1].out = <<>>

\* C26 (its case is reached): [1:1] over a sequence of three yielded the
\* list of its second element
C26_OneElementSlice ==
    /\ pc = "required" /\ res[1].err = "none"
    /\ ListLen(heap, root) = 3
    /\ args.path = <<IndexSeg(<<"1", ":", "1">>)>>
    /\ Len(res[1].out) = 1
    /\ ElementsOf(heap, res[1].out[1].node) = <<heap[root].ent[2][2]>>

-----------------------------------------------------------------------------
(* processor.py: _get_optional_nodes over sequences, the segment being a   *)
(* KEY or an INDEX past the end of the sequence                            *)

\* [N], N as a KEY, kc and kz; then [N].ka and [N][0]
ExtendPaths ==
    {<<IndexSeg(TextOfNat(n))>> : n \in 0..MaxIndex}
    \cup {<<KeySeg(TextOfNat(n))>> : n \in 0..MaxIndex}
    \cup {<<KeySeg(<<"k", "c">>)>>, <<KeySeg(<<"k", "z">>)>>}
    \cup {<<IndexSeg(TextOfNat(n)), KeySeg(<<"k", "a">>)>> : n \in 0..MaxIndex}
    \cup {<<KeySeg(TextOfNat(n)), IndexSeg(<<"0">>)>> : n \in 0..MaxIndex}

InitExtend ==
    /\ \E d \in IndexDocs : heap = d.h /\ root = d.r
    /\ args \in [path : ExtendPaths, value : Values, mustexist : {FALSE}]
    /\ pc = "start"
    /\ res = <<>>

NextExtend == GetOptional \/ SetValue

SpecExtend == InitExtend /\ [][NextExtend]_vars

\* The object id is the default node of the segment after the first one:
\* a mapping for a KEY, a sequence for an INDEX, the value at the end of
\* the path; empty says that nothing was added to it since
DefaultNode(h, id, empty) ==
    IF Len(args.path) = 1 THEN ValueIs(h, id, args.value)
    ELSE IF args.path[2].t = "KEY" THEN IsDict(h, id) /\ (empty => h[id].ent = <<>>)
    ELSE IsList(h, id) /\ (empty => h[id].ent = <<>>)

\* Some element of the sequence is a mapping that has the key
SomeElementHas(h, data, key) ==
    \E i \in 1..ListLen(h, data) :
        IsDict(h, h[data].ent[i][2]) /\ MapHas(h, h[data].ent[i][2], StrRef(key))

\* C27: under optional resolution a KEY or INDEX segment of integer N
\* against a sequence of length L <= N leaves the sequence with N + 1
\* elements, the first L as they were, each added one the default node of
\* the following segment, and resolution goes on at position N; a KEY that
\* is no integer and matches no element raises InvalidPath and leaves the
\* sequence as it was.
C27_SequenceExtended ==
    pc \in {"gotopt", "set"} =>
        IF IntParses(args.path[1].a)
        THEN ListLen(res[1].pre, root) <= IntParsed(args.path[1].a) =>
                 /\ res[1].err = "none"
                 /\ ListLen(heap, root) = IntParsed(args.path[1].a) + 1
                 /\ \A i \in 1..ListLen(res[1].pre, root) :
                        heap[root].ent[i] = res[1].pre[root].ent[i]
                 /\ \A i \in (ListLen(res[1].pre, root) + 1)..ListLen(heap, root) :
                        /\ heap[root].ent[i][2] > Len(res[1].pre)
                        /\ DefaultNode(heap, heap[root].ent[i][2],
                                       i < ListLen(heap, root))
                 /\ Len(res[1].out) = 1
                 /\ IF Len(args.path) = 1
                    THEN /\ res[1].out[1].parent = root
                         /\ res[1].out[1].ref = IntRef(IntParsed(args.path[1].a))
                    ELSE res[1].out[1].parent = heap[root].ent[ListLen(heap, root)][2]
        ELSE ~SomeElementHas(res[1].pre, root, args.path[1].a) =>
                 /\ res[1].err = "InvalidPath"
                 /\ heap[root] = res[1].pre[root]

\* C27 (its case is reached): set_value at [4].ka extended a sequence of
\* two elements to five
C27_ExtendedByThree ==
    /\ pc = "set" /\ res[1].err = "none"
    /\ args.path = <<IndexSeg(<<"4">>), KeySeg(<<"k", "a">>)>>
    /\ ListLen(res[1].pre, root) = 2
    /\ ListLen(heap, root) = 5
    /\ ValueIs(heap, MapGet(heap, heap[root].ent[5][2], StrRef(<<"k", "a">>)), args.value)

-----------------------------------------------------------------------------
(* processor.py: _get_optional_nodes, the segment being a SEARCH over the  *)
(* elements of a sequence                                                  *)

\* [kc=xx], [kc!=xx] and [kc=yy]
OptionalSearchPaths ==
    SeqPaths \cup {<<SearchSeg(FALSE, "EQUALS", <<"k", "c">>, <<"y", "y">>)>>}

InitOptionalSearch ==
    /\ \E d \in SeqDocs : heap = d.h /\ root = d.r
    /\ args \in [path : OptionalSearchPaths, value : Values, mustexist : {FALSE}]
    /\ pc = "start"
    /\ res = <<>>

NextOptionalSearch == GetOptional \/ SetValue

SpecOptionalSearch == InitOptionalSearch /\ [][NextOptionalSearch]_vars

\* C28: under optional resolution a SEARCH segment that matches no element
\* of the sequence yields no handle, raises no error and leaves the
\* document as it was.
C28_NoMatchNothingAdded ==
    (pc \in {"gotopt", "set"} /\ Deciding(res[1].pre, root, args.path[1]) = <<>>) =>
        /\ res[1].err = "none"
        /\ res[1].out = <<>>
        /\ heap = res[1].pre

\* C28 (the divergence is reached): [kc=xx] matches no element of the
\* sequence, whose first element is no mapping, and the call raised
C28_NoMatchRaised ==
    /\ pc = "set"
    /\ Deciding(res[1].pre, root, args.path[1]) = <<>>
    /\ Kind(heap, heap[root].ent[1][2]) = "str"
    /\ res[1].err = "UnboundLocalError"
    /\ heap = res[1].pre

-----------------------------------------------------------------------------
(* func.py: ensure_escaped, escape_path_section *)

MaxSectionLen == 4

\* Position of the first occurrence of term in t, or 0
FindIn(t, term) ==
    IF \E i \in 1..(Len(t) - Len(term) + 1) : SubSeq(t, i, i + Len(term) - 1) = term
    THEN CHOOSE i \in 1..(Len(t) - Len(term) + 1) :
             /\ SubSeq(t, i, i + Len(term) - 1) = term
             /\ \A j \in 1..(i - 1) : SubSeq(t, j, j + Len(term) - 1) # term
    ELSE 0

RECURSIVE SplitOn(_, _)
\* t.split(term)
SplitOn(t, term) ==
    IF FindIn(t, term) = 0 THEN <<t>>
    ELSE <<SubSeq(t, 1, FindIn(t, term) - 1)>>
             \o SplitOn(SubSeq(t, FindIn(t, term) + Len(term), Len(t)), term)

RECURSIVE ReplaceIn(_, _, _)
\* opart.replace(symbol, replace_term), symbol being one character
ReplaceIn(opart, symbol, replace_term) ==
    IF opart = <<>> THEN <<>>
    ELSE (IF opart[1] = symbol THEN replace_term ELSE <<opart[1]>>)
             \o ReplaceIn(Tail(opart), symbol, replace_term)

RECURSIVE JoinWith(_, _)
\* replace_term.join(eparts)
JoinWith(eparts, replace_term) ==
    IF Len(eparts) = 1 THEN eparts[1]
    ELSE eparts[1] \o replace_term \o JoinWith(Tail(eparts), replace_term)

\* One turn of the loop of ensure_escaped: the instances of symbol that are
\* not yet escaped get escaped
EscapedFor(escaped, symbol) ==
    JoinWith([i \in 1..Len(SplitOn(escaped, <<"\\", symbol>>)) |->
                 ReplaceIn(SplitOn(escaped, <<"\\", symbol>>)[i], symbol,
                           <<"\\", symbol>>)],
             <<"\\", symbol>>)

RECURSIVE ensure_escaped(_, _)
\* ensure_escaped(value, *symbols)
ensure_escaped(value, symbols) ==
    IF symbols = <<>> THEN value
    ELSE ensure_escaped(EscapedFor(value, symbols[1]), Tail(symbols))

\* escape_path_section(section, pathsep)
escape_path_section(section, pathsep) ==
    ensure_escaped(section,
        <<"\\", pathsep, "(", ")", "[", "]", "^", "$", "%", " ", "'", "\"">>)

SectionChars == {"\\", ".", "/", "(", "a"}

Sections == UNION {[1..n -> SectionChars] : n \in 0..MaxSectionLen}

InitEscape ==
    /\ heap = <<>>
    /\ root = 0
    /\ args \in [section : Sections, pathsep : {".", "/"}]
    /\ pc = "start"
    /\ res = <<>>

\* escape_path_section(args.section, args.pathsep)
EscapeSection ==
    /\ pc = "start"
    /\ res' = <<escape_path_section(args.section, args.pathsep)>>
    /\ pc' = "escaped"
    /\ UNCHANGED <<heap, root, args>>

NextEscape == EscapeSection

SpecEscape == InitEscape /\ [][NextEscape]_vars

\* What the escaped text reads as, under the separator it was escaped for
ReadAs(t, pathsep) == Scan(t, 1, <<>>, <<>>, pathsep)

\* C29: read with the backslash-escape rules, the text escape_path_section
\* returns for s and a separator is the one segment s, also when s holds
\* backslashes, one directly before a special symbol included.
C29_ReadsBackAsSection ==
    pc = "escaped" =>
        ReadAs(res[1], args.pathsep) = Parsed(WithKey(<<>>, args.section))

\* C29 (the divergence is reached): the section is a backslash, the
\* separator and a, and what was returned reads as two segments
C29_TwoSegmentsRead ==
    /\ pc = "escaped"
    /\ args.section = <<"\\", ".", "a">> /\ args.pathsep = "."
    /\ res[1] = <<"\\", "\\", ".", "a">>
    /\ Len(ReadAs(res[1], args.pathsep).segments) = 2
=============================================================================
